---- MODULE Spec2Model ----
(***************************************************************************)
(* Layout pipeline of syster-diagram-ui: the Graph Builder                 *)
(* (GeneralViewLayout), the Size Calculator (sizing), and the level and    *)
(* grid layouts of the view renderer (layoutUtils).                        *)
(*                                                                         *)
(* A JavaScript string is modelled as a sequence of one-character strings, *)
(* so that replace, split, includes and toLowerCase are computed and not   *)
(* assumed.  An absent optional string (undefined) is the empty sequence:  *)
(* the code only ever tests these fields for truthiness, and "" and        *)
(* undefined are both falsy.                                               *)
(***************************************************************************)
EXTENDS Integers, Sequences, FiniteSets, TLC

VARIABLES
    symbols,        \* apply: the DiagramSymbol[] argument
    relationships,  \* apply: the DiagramRelationship[] argument
    config,         \* apply: the ViewConfig argument
    pc,             \* apply: position of the invocation
    nodes,          \* apply: the node list built by buildNodes
    edges,          \* apply: the edge list built by buildEdges
    features,       \* sizing: the content list handed to the Size Calculator
    isContainer,    \* sizing: the container flag handed to calculateNodeSize
    sizing,         \* sizing: the last call and what it returned
    viewNodes,      \* views: resolvedView.nodes (DiagramNode[])
    viewEdges,      \* views: resolvedView.edges (DiagramEdge[])
    viewOut,        \* views: the last layout call and what it returned
    runs,           \* runs: the apply invocations of a host, one record each
    elk,            \* runs: the module-level engine instance of elk-layout
    elkCall,        \* apply: the last applyElkLayout call that reached the engine
    themeUi         \* theme: the ThemeProvider, the document and the system

vars == <<symbols, relationships, config, pc, nodes, edges,
          features, isContainer, sizing, viewNodes, viewEdges, viewOut,
          runs, elk, elkCall, themeUi>>

applyVars == <<symbols, relationships, config, pc, nodes, edges, elkCall>>
sizeVars == <<features, isContainer, sizing>>
viewVars == <<viewNodes, viewEdges, viewOut>>
runVars == <<runs, elk>>
themeVars == <<themeUi>>

(***************************************************************************)
(* Strings                                                                 *)
(***************************************************************************)
Max(a, b) == IF a >= b THEN a ELSE b

\* Sequences over S of length at most n.
SeqsUpTo(S, n) == UNION {[1..k -> S] : k \in 0..n}

UpperCaseLetters ==
    <<"A","B","C","D","E","F","G","H","I","J","K","L","M",
      "N","O","P","Q","R","S","T","U","V","W","X","Y","Z">>

LowerCaseLetters ==
    <<"a","b","c","d","e","f","g","h","i","j","k","l","m",
      "n","o","p","q","r","s","t","u","v","w","x","y","z">>

\* The lower-case letter of each upper-case letter.
UpperToLower ==
    [u \in {UpperCaseLetters[i] : i \in DOMAIN UpperCaseLetters} |->
        LowerCaseLetters[CHOOSE i \in DOMAIN UpperCaseLetters : UpperCaseLetters[i] = u]]

\* String.prototype.toLowerCase, one character.
LowerChar(c) == IF c \in DOMAIN UpperToLower THEN UpperToLower[c] ELSE c

\* String.prototype.toLowerCase.
ToLowerCase(s) == [i \in 1..Len(s) |-> LowerChar(s[i])]

\* Does pat occur in s at position i?
MatchesAt(s, pat, i) ==
    /\ i + Len(pat) - 1 <= Len(s)
    /\ \A j \in 1..Len(pat) : s[i + j - 1] = pat[j]

\* String.prototype.includes.
Includes(s, pat) == \E i \in 1..(Len(s) + 1) : MatchesAt(s, pat, i)

\* The namespace separator '::'.
NamespaceSeparator == <<":", ":">>

(***************************************************************************)
(* Size Calculator (sizing)                                                *)
(***************************************************************************)
headerHeight == 60
sectionHeaderHeight == 24
itemHeight == 26
bottomPadding == 20
childGap == 20
minHeight == 90
minContainerHeight == 200
defaultWidth == 200
minContainerWidth == 300

\* The padding calculateContentHeight adds to the header when there is no content.
emptyContentPadding == 10

\* The room calculateNodeSize adds to a container's content height.
containerExtraHeight == 60

\* The section groupFeatureCounts puts one content line in.
FeatureSection(f) ==
    LET lower == ToLowerCase(f) IN
    IF Includes(lower, <<"a","c","t","i","o","n">>)
       \/ Includes(lower, <<":","a","c","t","i","o","n">>)
    THEN "actions"
    ELSE IF \/ Includes(lower, <<"a","t","t","r","i","b","u","t","e">>)
            \/ Includes(lower, <<"a","t","t","r">>)
            \/ ~Includes(f, <<":">>)
         THEN "attrs"
         ELSE "parts"

\* groupFeatureCounts: how many lines fall in each section.
groupFeatureCounts(fs) ==
    LET section == [i \in DOMAIN fs |-> FeatureSection(fs[i])]
    IN  [parts   |-> Cardinality({i \in DOMAIN fs : section[i] = "parts"}),
         attrs   |-> Cardinality({i \in DOMAIN fs : section[i] = "attrs"}),
         actions |-> Cardinality({i \in DOMAIN fs : section[i] = "actions"})]

\* groupFeatures of the node renderer with the tests made on the line as
\* written, not on its lower-case form.
groupFeaturesCaseSensitive(fs) ==
    LET RECURSIVE Loop(_, _)
        Loop(k, groups) ==
            IF k > Len(fs) THEN groups
            ELSE LET f == fs[k] IN
                 IF Includes(f, <<"a","c","t","i","o","n">>)
                    \/ Includes(f, <<":","a","c","t","i","o","n">>)
                 THEN Loop(k + 1, [groups EXCEPT !.actions = Append(@, f)])
                 ELSE IF \/ Includes(f, <<"a","t","t","r","i","b","u","t","e">>)
                         \/ Includes(f, <<"a","t","t","r">>)
                         \/ ~Includes(f, <<":">>)
                      THEN Loop(k + 1, [groups EXCEPT !.attributes = Append(@, f)])
                      ELSE Loop(k + 1, [groups EXCEPT !.parts = Append(@, f)])
    IN  Loop(1, [parts |-> <<>>, attributes |-> <<>>, actions |-> <<>>])

\* groupFeatures of the node renderer (SysMLNode): the loop pushes each line
\* on the list of the first section whose test it passes.
groupFeatures(fs) ==
    LET RECURSIVE Loop(_, _)
        Loop(k, groups) ==
            IF k > Len(fs) THEN groups
            ELSE LET f == fs[k]
                     lower == ToLowerCase(f)
                 IN
                 IF Includes(lower, <<"a","c","t","i","o","n">>)
                    \/ Includes(lower, <<":","a","c","t","i","o","n">>)
                 THEN Loop(k + 1, [groups EXCEPT !.actions = Append(@, f)])
                 ELSE IF \/ Includes(lower, <<"a","t","t","r","i","b","u","t","e">>)
                         \/ Includes(lower, <<"a","t","t","r">>)
                         \/ ~Includes(f, <<":">>)
                      THEN Loop(k + 1, [groups EXCEPT !.attributes = Append(@, f)])
                      ELSE Loop(k + 1, [groups EXCEPT !.parts = Append(@, f)])
    IN  Loop(1, [parts |-> <<>>, attributes |-> <<>>, actions |-> <<>>])

\* calculateContentHeight with the section headers left out of the sum.
calculateContentHeightNoSections(fs) ==
    IF Len(fs) = 0
    THEN headerHeight + emptyContentPadding
    ELSE headerHeight + (Len(fs) * itemHeight) + bottomPadding

\* calculateContentHeight.
calculateContentHeight(fs) ==
    LET counts == groupFeatureCounts(fs)
        featureCount == Len(fs)
        sectionCount == (IF counts.parts > 0 THEN 1 ELSE 0)
                        + (IF counts.attrs > 0 THEN 1 ELSE 0)
                        + (IF counts.actions > 0 THEN 1 ELSE 0)
        featureHeight == (sectionCount * sectionHeaderHeight)
                         + (featureCount * itemHeight)
                         + bottomPadding
    IN  IF featureCount = 0
        THEN headerHeight + emptyContentPadding
        ELSE headerHeight + featureHeight

\* calculateNodeSize without the minimum-height floors.
calculateNodeSizeNoFloor(fs, container) ==
    LET contentHeight == calculateContentHeight(fs) IN
    IF container
    THEN [width |-> minContainerWidth, height |-> contentHeight + containerExtraHeight]
    ELSE [width |-> defaultWidth, height |-> contentHeight]

\* calculateNodeSize.
calculateNodeSize(fs, container) ==
    LET contentHeight == calculateContentHeight(fs) IN
    IF container
    THEN [width  |-> minContainerWidth,
          height |-> Max(minContainerHeight, contentHeight + containerExtraHeight)]
    ELSE [width  |-> defaultWidth,
          height |-> Max(minHeight, contentHeight)]

\* calculateElkTopPadding.
calculateElkTopPadding(fs) == calculateContentHeight(fs) + childGap

(***************************************************************************)
(* Calls of the Size Calculator on bounded content lists                   *)
(***************************************************************************)
MaxFeatures == 3

\* "x : T", a typed line: the parts section.
LineTyped == <<"x"," ",":"," ","T">>
\* "in p", a line with no type separator: the attributes section.
LineUntyped == <<"i","n"," ","p">>
\* "---", the separator line: no type separator, the attributes section.
LineSeparator == <<"-","-","-">>
\* "a : Attr", a typed line that mentions attr: the attributes section.
LineAttr == <<"a"," ",":"," ","A","t","t","r">>
\* "go : Action", a typed line that mentions action: the actions section.
LineAction == <<"g","o"," ",":"," ","A","c","t","i","o","n">>

\* "t : attrAction", a typed line that mentions attr and action: the actions
\* section, whose test comes first.
LineAttrAction == <<"t"," ",":"," ","a","t","t","r","A","c","t","i","o","n">>

FeatureLines ==
    {LineTyped, LineUntyped, LineSeparator, LineAttr, LineAction, LineAttrAction}

\* An optional value: absent is the empty sequence, a given value is the
\* one-element sequence holding it.
Absent == <<>>
Given(list) == <<list>>

NoGroups == [parts |-> <<>>, attributes |-> <<>>, actions |-> <<>>]

NoSizing == [op |-> "none", line |-> <<>>, contentBefore |-> 0, content |-> 0,
             counts |-> [parts |-> 0, attrs |-> 0, actions |-> 0],
             groups |-> NoGroups,
             before |-> [width |-> 0, height |-> 0],
             size |-> [width |-> 0, height |-> 0]]

NoViewOut == [op |-> "none", arg |-> "", starts |-> <<>>, levels |-> <<>>,
              nodes |-> <<>>, edges |-> <<>>, declared |-> "none",
              layoutDirection |-> "TB", showLabels |-> TRUE,
              showDetails |-> TRUE, keys |-> {},
              strategy |-> "none"]

\* No applyElkLayout call has reached the engine.
NoElkCall == [sent |-> FALSE, nodes |-> <<>>, children |-> <<>>, edges |-> <<>>,
              layouted |-> <<>>]

\* No ThemeProvider is mounted.
NoThemeUi == [mounted |-> FALSE]

InitIdleTheme == themeUi = NoThemeUi

InitIdleApply ==
    /\ symbols = <<>>
    /\ relationships = <<>>
    /\ config = [includeNodeTypes |-> <<>>, includeEdgeTypes |-> <<>>]
    /\ pc = "input"
    /\ nodes = <<>>
    /\ edges = <<>>
    /\ elkCall = NoElkCall

InitIdleSizing ==
    /\ features = <<>>
    /\ isContainer = FALSE
    /\ sizing = NoSizing

InitIdleViews ==
    /\ viewNodes = <<>>
    /\ viewEdges = <<>>
    /\ viewOut = NoViewOut

\* The engine instance after new ELK(): it holds no request and has seen
\* none.  Its log lists the requests it received and the answers it gave.
IdleEngine == [pending |-> {}, log |-> <<>>]

InitIdleRuns ==
    /\ runs = <<>>
    /\ elk = IdleEngine

InitSize ==
    /\ features \in SeqsUpTo(FeatureLines, MaxFeatures)
    /\ isContainer \in BOOLEAN
    /\ sizing = NoSizing
    /\ InitIdleApply
    /\ InitIdleViews
    /\ InitIdleRuns
    /\ InitIdleTheme

\* A caller asks calculateContentHeight for the height of the content list.
CallCalculateContentHeight ==
    /\ sizing.op = "none"
    /\ sizing' = [NoSizing EXCEPT !.op = "contentHeight",
                                  !.content = calculateContentHeight(features)]
    /\ UNCHANGED <<features, isContainer, applyVars, viewVars, runVars, themeVars>>

\* A caller asks calculateNodeSize for the size of the node.
CallCalculateNodeSize ==
    /\ sizing.op = "none"
    /\ sizing' = [NoSizing EXCEPT !.op = "nodeSize",
                                  !.content = calculateContentHeight(features),
                                  !.size = calculateNodeSize(features, isContainer)]
    /\ UNCHANGED <<features, isContainer, applyVars, viewVars, runVars, themeVars>>

\* The node gains one content line and is sized again: the Size Calculator
\* is called on the content before and after.
ResizeWithLine(l) ==
    /\ sizing.op = "none"
    /\ Len(features) < MaxFeatures
    /\ features' = Append(features, l)
    /\ sizing' = [NoSizing EXCEPT
                  !.op = "resize", !.line = l,
                  !.contentBefore = calculateContentHeight(features),
                  !.content = calculateContentHeight(Append(features, l)),
                  !.before = calculateNodeSize(features, isContainer),
                  !.size = calculateNodeSize(Append(features, l), isContainer)]
    /\ UNCHANGED <<isContainer, applyVars, viewVars, runVars, themeVars>>

\* SysMLNode renders the node with showFeatures set: its sections are the
\* lists of groupFeatures, and the node was sized from the counts of
\* groupFeatureCounts on the same content.
RenderSysMLNode ==
    /\ sizing.op = "none"
    /\ sizing' = [NoSizing EXCEPT !.op = "render",
                                  !.counts = groupFeatureCounts(features),
                                  !.groups = groupFeatures(features),
                                  !.content = calculateContentHeight(features)]
    /\ UNCHANGED <<features, isContainer, applyVars, viewVars, runVars, themeVars>>

NextSize ==
    \/ CallCalculateContentHeight
    \/ CallCalculateNodeSize
    \/ RenderSysMLNode
    \/ \E l \in FeatureLines : ResizeWithLine(l)

SpecSize == InitSize /\ [][NextSize]_vars

(***************************************************************************)
(* Size Calculator: properties                                             *)
(***************************************************************************)
\* C6 (as amended): for a node with zero content lines calculateContentHeight
\* returns the header-only constant headerHeight + 10, and calculateNodeSize
\* returns that value raised to its floor: minHeight for a leaf and
\* minContainerHeight for a container.
C6_EmptyContentHeights ==
    features = <<>> =>
        /\ sizing.op \in {"contentHeight", "nodeSize"} =>
               sizing.content = headerHeight + emptyContentPadding
        /\ sizing.op = "nodeSize" =>
               sizing.size.height =
                   IF isContainer
                   THEN Max(minContainerHeight,
                            headerHeight + emptyContentPadding + containerExtraHeight)
                   ELSE Max(minHeight, headerHeight + emptyContentPadding)

\* C6 witness: calculateNodeSize has sized a leaf with zero content lines.
C6_Witness ==
    /\ features = <<>>
    /\ ~isContainer
    /\ sizing.op = "nodeSize"
    /\ sizing.size.height = minHeight

\* C6 as stated: the height of a node with zero content lines is the
\* header-only constant, through calculateContentHeight and through
\* calculateNodeSize alike.
C6_Original ==
    (features = <<>> /\ sizing.op = "nodeSize") =>
        sizing.size.height = headerHeight + emptyContentPadding

\* The content line of the last resize opens a section that had no line.
OpensNewSection ==
    /\ sizing.op = "resize"
    /\ \A i \in 1..(Len(features) - 1) :
           FeatureSection(features[i]) # FeatureSection(sizing.line)

\* C7 (as amended): when a content line opens a new section, the content
\* height (calculateContentHeight) grows by at least sectionHeaderHeight +
\* itemHeight; the node height of calculateNodeSize, which applies the
\* minimum-height floors, does not shrink and is at least the content height.
C7_NewSectionGrowth ==
    OpensNewSection =>
        /\ sizing.content >= sizing.contentBefore + sectionHeaderHeight + itemHeight
        /\ sizing.size.height >= sizing.before.height
        /\ sizing.size.height >= sizing.content

\* C7 witness: a line opened a second section of a node that had content.
C7_Witness ==
    /\ OpensNewSection
    /\ Len(features) >= 2
    /\ sizing.content = sizing.contentBefore + sectionHeaderHeight + itemHeight

\* C7 as stated: the node height computed for the content with the new line
\* exceeds the node height computed without it by at least
\* sectionHeaderHeight + itemHeight, for either container flag.
C7_Original ==
    OpensNewSection =>
        sizing.size.height >= sizing.before.height + sectionHeaderHeight + itemHeight

\* The lines of fs that pass the test named by which, in their order.
LinesPassing(fs, which) ==
    LET Passes(f) ==
            LET lower == ToLowerCase(f)
                action == Includes(lower, <<"a","c","t","i","o","n">>)
                attribute == \/ Includes(lower, <<"a","t","t","r">>)
                             \/ ~Includes(f, <<":">>)
            IN  CASE which = "actions" -> action
                  [] which = "attributes" -> ~action /\ attribute
                  [] which = "parts" -> ~action /\ ~attribute
    IN  SelectSeq(fs, Passes)

\* C27: for every list of content lines the counts of groupFeatureCounts
\* (parts, attrs, actions) are the lengths of the sections groupFeatures
\* renders (parts, attributes, actions); every line is in exactly one
\* section, an action line before an attribute line before a part line.
C27_CountsMatchSections ==
    sizing.op = "render" =>
        /\ sizing.counts.parts = Len(sizing.groups.parts)
        /\ sizing.counts.attrs = Len(sizing.groups.attributes)
        /\ sizing.counts.actions = Len(sizing.groups.actions)
        /\ sizing.groups.actions = LinesPassing(features, "actions")
        /\ sizing.groups.attributes = LinesPassing(features, "attributes")
        /\ sizing.groups.parts = LinesPassing(features, "parts")
        /\ Len(sizing.groups.parts) + Len(sizing.groups.attributes)
             + Len(sizing.groups.actions) = Len(features)

\* C27 witness: a node with a part line, an attribute line and a line that
\* mentions both attr and action was rendered in three sections.
C27_Witness ==
    /\ sizing.op = "render"
    /\ features = <<LineTyped, LineAttr, LineAttrAction>>
    /\ sizing.groups = [parts |-> <<LineTyped>>, attributes |-> <<LineAttr>>,
                        actions |-> <<LineAttrAction>>]
    /\ sizing.counts = [parts |-> 1, attrs |-> 1, actions |-> 1]

(***************************************************************************)
(* Layout utilities of the view renderer (layoutUtils)                     *)
(***************************************************************************)
\* DEFAULT_OPTIONS of layoutUtils.
DEFAULT_OPTIONS ==
    [nodeWidth |-> 160, nodeHeight |-> 80, horizontalGap |-> 80,
     verticalGap |-> 100, direction |-> "TB"]

\* { ...DEFAULT_OPTIONS, ...opts }: the keys of opts override the defaults.
MergeOptions(opts) ==
    [k \in (DOMAIN DEFAULT_OPTIONS) \cup (DOMAIN opts) |->
        IF k \in DOMAIN opts THEN opts[k] ELSE DEFAULT_OPTIONS[k]]

\* The own property keys of a JavaScript array: "0", "1", ...
IndexKeys == <<"0", "1", "2", "3", "4", "5", "6", "7", "8", "9">>

\* An array seen as an object, as the spread operator sees it.
ArrayAsObject(arr) ==
    [k \in {IndexKeys[i] : i \in DOMAIN arr} |->
        arr[CHOOSE i \in DOMAIN arr : IndexKeys[i] = k]]

\* The values of a map, as a set.
MapValues(m) == {m[k] : k \in DOMAIN m}

\* Math.max(0, ...values).
MaxOrZero(S) == IF S = {} THEN 0 ELSE CHOOSE m \in S \cup {0} : \A v \in S \cup {0} : v <= m

\* buildGraph: the outgoing adjacency list, targets in edge order.
buildGraph(es) ==
    [s \in {es[i].source : i \in DOMAIN es} |->
        LET out == SelectSeq(es, LAMBDA e : e.source = s)
        IN  [i \in DOMAIN out |-> out[i].target]]

\* The optional startNodeIds argument of calculateLevels: absent is the empty
\* sequence, a given id list is the one-element sequence holding it.
NoStartNodeIds == <<>>

\* The default start nodes with hasIncoming collected from the edge sources.
DefaultStartsBySource(ns, es) ==
    LET hasIncoming == {es[i].source : i \in DOMAIN es}
        roots == SelectSeq(ns, LAMBDA n : n.id \notin hasIncoming)
    IN  [i \in DOMAIN roots |-> roots[i].id]

\* Default start nodes that leave out the nodes with no outgoing edge.
DefaultStartsWithOutgoing(ns, es) ==
    LET hasIncoming == {es[i].target : i \in DOMAIN es}
        hasOutgoing == {es[i].source : i \in DOMAIN es}
        roots == SelectSeq(ns, LAMBDA n : n.id \notin hasIncoming /\ n.id \in hasOutgoing)
    IN  [i \in DOMAIN roots |-> roots[i].id]

\* The default start nodes: the ids of the nodes that are the target of no edge.
DefaultStarts(ns, es) ==
    LET hasIncoming == {es[i].target : i \in DOMAIN es}
        roots == SelectSeq(ns, LAMBDA n : n.id \notin hasIncoming)
    IN  [i \in DOMAIN roots |-> roots[i].id]

\* The inner loop of the BFS: the neighbours of one dequeued entry, in order.
RECURSIVE VisitNeighbours(_, _, _, _)
VisitNeighbours(neighbours, level, queue, levels) ==
    IF neighbours = <<>>
    THEN [queue |-> queue, levels |-> levels]
    ELSE LET nb == Head(neighbours) IN
         IF nb \in DOMAIN levels
         THEN VisitNeighbours(Tail(neighbours), level, queue, levels)
         ELSE VisitNeighbours(Tail(neighbours), level,
                              Append(queue, [id |-> nb, level |-> level + 1]),
                              [k \in (DOMAIN levels) \cup {nb} |->
                                  IF k = nb THEN level + 1 ELSE levels[k]])

\* The while loop of the BFS: queue.shift() until the queue is empty.
RECURSIVE BfsLoop(_, _, _)
BfsLoop(graph, queue, levels) ==
    IF queue = <<>>
    THEN levels
    ELSE LET entry == Head(queue)
             neighbours == IF entry.id \in DOMAIN graph THEN graph[entry.id] ELSE <<>>
             step == VisitNeighbours(neighbours, entry.level, Tail(queue), levels)
         IN  BfsLoop(graph, step.queue, step.levels)

\* The last step of calculateLevels with level 0 for the unvisited nodes.
AssignUnvisitedZero(ns, levels) ==
    LET ids == {ns[i].id : i \in DOMAIN ns}
    IN  [k \in (DOMAIN levels) \cup ids |->
            IF k \in DOMAIN levels THEN levels[k] ELSE 0]

\* The last step of calculateLevels: unvisited nodes get the maximum level.
AssignUnvisited(ns, levels) ==
    LET maxLevel == MaxOrZero(MapValues(levels))
        ids == {ns[i].id : i \in DOMAIN ns}
    IN  [k \in (DOMAIN levels) \cup ids |->
            IF k \in DOMAIN levels THEN levels[k] ELSE maxLevel]

\* calculateLevels.
calculateLevels(ns, es, startNodeIds) ==
    LET graph == buildGraph(es)
        starts == IF startNodeIds = NoStartNodeIds
                  THEN DefaultStarts(ns, es) ELSE startNodeIds[1]
        queue == [i \in DOMAIN starts |-> [id |-> starts[i], level |-> 0]]
        seeded == [k \in {starts[i] : i \in DOMAIN starts} |-> 0]
    IN  AssignUnvisited(ns, BfsLoop(graph, queue, seeded))

\* Math.floor(Math.sqrt(n)).
FloorSqrt(n) == CHOOSE c \in 0..n : c * c <= n /\ (c + 1) * (c + 1) > n

\* Math.ceil(Math.sqrt(n)).
CeilSqrt(n) == CHOOSE c \in 0..n : c * c >= n /\ \A d \in 0..(c - 1) : d * d < n

\* The column count of applyGridLayout.
GridColumns(n) == CeilSqrt(n)

\* applyGridLayout.
applyGridLayout(ns, opts) ==
    LET o == MergeOptions(opts)
        columns == GridColumns(Len(ns))
    IN  [k \in DOMAIN ns |->
            LET i == k - 1 IN
            [ns[k] EXCEPT !.position =
                [x |-> (i % columns) * (o.nodeWidth + o.horizontalGap),
                 y |-> (i \div columns) * (o.nodeHeight + o.verticalGap)]]]

\* A position that ignores the direction.
LevelPositionNeverSwapped(direction, x, y) == [x |-> x, y |-> y]

\* direction === 'TB' ? { x, y } : { x: y, y: x }.
LevelPosition(direction, x, y) ==
    IF direction = "TB" THEN [x |-> x, y |-> y] ELSE [x |-> y, y |-> x]

\* An index that is 0 for every node of a level.
IndexInLevelAlwaysFirst(levelNodes, k) == 0

\* levelNodes.indexOf(node): the place of the node at input position k among
\* the nodes of its level, which are held in input order.
IndexInLevel(levelNodes, k) == Cardinality({j \in levelNodes : j < k})

\* applyLevelLayout.  x is index * (nodeWidth + horizontalGap) - totalWidth / 2
\* + 300; the option values used here are even, so the half is an integer.
applyLevelLayout(ns, es, opts) ==
    LET o == MergeOptions(opts)
        levels == calculateLevels(ns, es, NoStartNodeIds)
        LevelOf(n) == IF n.id \in DOMAIN levels THEN levels[n.id] ELSE 0
        \* byLevel.get(level): the input positions of the nodes of one level
        LevelNodes(lvl) == {k \in DOMAIN ns : LevelOf(ns[k]) = lvl}
    IN  [k \in DOMAIN ns |->
            LET level == LevelOf(ns[k])
                levelNodes == LevelNodes(level)
                index == IndexInLevel(levelNodes, k)
                count == Cardinality(levelNodes)
                totalWidth == count * o.nodeWidth + (count - 1) * o.horizontalGap
                x == (index * (o.nodeWidth + o.horizontalGap)) - (totalWidth \div 2) + 300
                y == level * (o.nodeHeight + o.verticalGap) + 50
            IN  [ns[k] EXCEPT !.position = LevelPosition(o.direction, x, y)]]

\* An absent edge label.
NoLabel == "undefined"

\* stripEdgeLabels.
stripEdgeLabels(es) == [i \in DOMAIN es |-> [es[i] EXCEPT !.label = NoLabel]]

\* stripNodeData.
stripNodeData(ns, keys) ==
    [i \in DOMAIN ns |->
        [ns[i] EXCEPT !.data =
            [k \in (DOMAIN ns[i].data) \ keys |-> ns[i].data[k]]]]

(***************************************************************************)
(* View renderer (ViewRenderer)                                            *)
(***************************************************************************)
\* The view types of the ViewType union.
VIEW_TYPES ==
    [GENERAL |-> "GeneralView", INTERCONNECTION |-> "InterconnectionView",
     ACTION_FLOW |-> "ActionFlowView", STATE_TRANSITION |-> "StateTransitionView",
     SEQUENCE |-> "SequenceView"]

\* A table that sends the action flow view to the grid as well.
getLayoutForViewTypeFlowsOnGrid(viewType) ==
    IF viewType \in {VIEW_TYPES.INTERCONNECTION, VIEW_TYPES.ACTION_FLOW}
    THEN "applyGridLayout" ELSE "applyLevelLayout"

\* getLayoutForViewType: the name of the layout function chosen.
getLayoutForViewType(viewType) ==
    IF viewType = VIEW_TYPES.INTERCONNECTION THEN "applyGridLayout" ELSE "applyLevelLayout"

\* Hidden keys that do not depend on the view type.
getHiddenDataKeysOfEveryView(viewType) == {"entryAction", "exitAction", "doActivity"}

\* getHiddenDataKeys.
getHiddenDataKeys(viewType) ==
    IF viewType = VIEW_TYPES.STATE_TRANSITION
    THEN {"entryAction", "exitAction", "doActivity"}
    ELSE {}

\* The useMemo body of ViewRenderer: layoutFn(nodes, edges, { direction }),
\* then the optional stripping.  applyGridLayout takes the edge list as its
\* options argument and ignores the third argument.
ProcessedView(ns, es, viewType, layoutDirection, showLabels, showDetails) ==
    LET laid == IF getLayoutForViewType(viewType) = "applyGridLayout"
                THEN applyGridLayout(ns, ArrayAsObject(es))
                ELSE applyLevelLayout(ns, es, [direction |-> layoutDirection])
    IN  [nodes |-> IF showDetails THEN laid
                   ELSE stripNodeData(laid, getHiddenDataKeys(viewType)),
         edges |-> IF showLabels THEN es ELSE stripEdgeLabels(es)]

\* resolvedView.view.viewType ?? resolvedView.definition.viewType ??
\* VIEW_TYPES.GENERAL.
ResolvedViewType(declared) ==
    IF declared.view # Absent THEN declared.view[1]
    ELSE IF declared.definition # Absent THEN declared.definition[1]
    ELSE VIEW_TYPES.GENERAL

\* createLayoutStrategy: the class of the strategy returned.  Every case of
\* the switch falls through to the default.
createLayoutStrategy(viewType) ==
    CASE viewType \in {"InterconnectionView", "ActionFlowView", "StateTransitionView",
                       "GeneralView"} -> "GeneralViewLayout"
      [] OTHER -> "GeneralViewLayout"

(***************************************************************************)
(* Calls of the layout utilities and renders on bounded views              *)
(***************************************************************************)
MaxViewNodes == 4
MaxViewEdges == 3

\* The ids edges may name; an id beyond the node list is a dangling endpoint.
EdgeEndpointIds == {1, 2, 3}

\* node(id) of the tests, with the detail fields a state node carries.
ViewNode(i) ==
    [id |-> i, type |-> "PartUsage", position |-> [x |-> 0, y |-> 0],
     data |-> [name |-> "n", entryAction |-> "enter", doActivity |-> "run"]]

\* edge(id, source, target) of the tests.
ViewEdge(i, pair) == [id |-> i, source |-> pair[1], target |-> pair[2], label |-> "l"]

\* Layout options a caller passes: none, or a narrower node and gap.
CallerOptions ==
    [defaults |-> <<>>,
     custom   |-> [nodeWidth |-> 100, horizontalGap |-> 20]]

InitViews ==
    /\ \E n \in 0..MaxViewNodes : viewNodes = [i \in 1..n |-> ViewNode(i)]
    /\ \E pairs \in SeqsUpTo(EdgeEndpointIds \X EdgeEndpointIds, MaxViewEdges) :
          viewEdges = [i \in DOMAIN pairs |-> ViewEdge(i, pairs[i])]
    /\ viewOut = NoViewOut
    /\ InitIdleApply
    /\ InitIdleSizing
    /\ InitIdleRuns
    /\ InitIdleTheme

\* A caller calls calculateLevels(nodes, edges) or calculateLevels(nodes, edges, ids).
CallCalculateLevels(startNodeIds) ==
    /\ viewOut.op = "none"
    /\ viewOut' = [NoViewOut EXCEPT
                      !.op = "calculateLevels",
                      !.starts = startNodeIds,
                      !.levels = calculateLevels(viewNodes, viewEdges, startNodeIds)]
    /\ UNCHANGED <<viewNodes, viewEdges, applyVars, sizeVars, runVars, themeVars>>

\* A caller calls applyLevelLayout(nodes, edges, opts).
CallApplyLevelLayout(optsName, direction) ==
    /\ viewOut.op = "none"
    /\ viewOut' = [NoViewOut EXCEPT
                      !.op = "applyLevelLayout",
                      !.arg = optsName,
                      !.layoutDirection = direction,
                      !.nodes = applyLevelLayout(viewNodes, viewEdges,
                                    [k \in (DOMAIN CallerOptions[optsName]) \cup {"direction"} |->
                                        IF k = "direction" THEN direction
                                        ELSE CallerOptions[optsName][k]])]
    /\ UNCHANGED <<viewNodes, viewEdges, applyVars, sizeVars, runVars, themeVars>>

\* A caller calls applyGridLayout(nodes, opts).
CallApplyGridLayout(optsName) ==
    /\ viewOut.op = "none"
    /\ viewOut' = [NoViewOut EXCEPT
                      !.op = "applyGridLayout",
                      !.arg = optsName,
                      !.nodes = applyGridLayout(viewNodes, CallerOptions[optsName])]
    /\ UNCHANGED <<viewNodes, viewEdges, applyVars, sizeVars, runVars, themeVars>>

\* A caller calls stripEdgeLabels(edges).
CallStripEdgeLabels ==
    /\ viewOut.op = "none"
    /\ viewOut' = [NoViewOut EXCEPT
                      !.op = "stripEdgeLabels",
                      !.edges = stripEdgeLabels(viewEdges)]
    /\ UNCHANGED <<viewNodes, viewEdges, applyVars, sizeVars, runVars, themeVars>>

\* A caller calls stripNodeData(nodes, keys).
CallStripNodeData(keys) ==
    /\ viewOut.op = "none"
    /\ viewOut' = [NoViewOut EXCEPT
                      !.op = "stripNodeData",
                      !.keys = keys,
                      !.nodes = stripNodeData(viewNodes, keys)]
    /\ UNCHANGED <<viewNodes, viewEdges, applyVars, sizeVars, runVars, themeVars>>

\* A caller calls createLayoutStrategy(viewType).
CallCreateLayoutStrategy(viewType) ==
    /\ viewOut.op = "none"
    /\ viewOut' = [NoViewOut EXCEPT
                      !.op = "createLayoutStrategy",
                      !.arg = viewType,
                      !.strategy = createLayoutStrategy(viewType)]
    /\ UNCHANGED <<viewNodes, viewEdges, applyVars, sizeVars, runVars, themeVars>>

\* ViewRenderer renders the resolved view.
RenderView(declared, layoutDirection, showLabels, showDetails) ==
    /\ viewOut.op = "none"
    /\ LET viewType == ResolvedViewType(declared)
           processed == ProcessedView(viewNodes, viewEdges, viewType,
                                      layoutDirection, showLabels, showDetails)
       IN  viewOut' = [NoViewOut EXCEPT
                          !.op = "render",
                          !.arg = viewType,
                          !.declared = declared,
                          !.layoutDirection = layoutDirection,
                          !.showLabels = showLabels,
                          !.showDetails = showDetails,
                          !.nodes = processed.nodes,
                          !.edges = processed.edges]
    /\ UNCHANGED <<viewNodes, viewEdges, applyVars, sizeVars, runVars, themeVars>>

\* The view types a resolved view may carry: the registered ones and one that
\* is not registered.
RenderedViewTypes ==
    {VIEW_TYPES.GENERAL, VIEW_TYPES.INTERCONNECTION, VIEW_TYPES.STATE_TRANSITION,
     VIEW_TYPES.ACTION_FLOW, "TreeView"}

\* What a resolved view declares: a type on the view, or none on the view
\* and one or none on its definition.
DeclaredViewTypes ==
    {[view |-> Given(t), definition |-> Absent] : t \in RenderedViewTypes}
        \cup {[view |-> Absent, definition |-> Given(VIEW_TYPES.INTERCONNECTION)],
              [view |-> Absent, definition |-> Absent]}

\* The props a host passes: the defaults, and a left-to-right view with
\* labels and details switched off.
RenderedProps ==
    {[layoutDirection |-> "TB", showLabels |-> TRUE, showDetails |-> TRUE],
     [layoutDirection |-> "LR", showLabels |-> FALSE, showDetails |-> FALSE]}

\* The keys a caller of stripNodeData lists: one the nodes carry with one
\* they do not, and the name.
StrippedKeys == {{"entryAction", "exitAction"}, {"name"}}

NextViews ==
    \/ \E s \in {NoStartNodeIds, <<<<2>>>>} : CallCalculateLevels(s)
    \/ \E o \in DOMAIN CallerOptions, d \in {"TB", "LR"} : CallApplyLevelLayout(o, d)
    \/ \E o \in DOMAIN CallerOptions : CallApplyGridLayout(o)
    \/ CallStripEdgeLabels
    \/ \E keys \in StrippedKeys : CallStripNodeData(keys)
    \/ \E t \in RenderedViewTypes \cup {VIEW_TYPES.SEQUENCE} : CallCreateLayoutStrategy(t)
    \/ \E d \in DeclaredViewTypes, p \in RenderedProps :
          RenderView(d, p.layoutDirection, p.showLabels, p.showDetails)

SpecViews == InitViews /\ [][NextViews]_vars

(***************************************************************************)
(* Level layout: properties                                                *)
(***************************************************************************)
\* The roots of the last calculateLevels call: the given ids, or the nodes
\* that are the target of no edge.
CallRoots ==
    IF viewOut.starts = NoStartNodeIds
    THEN {viewNodes[i].id : i \in DOMAIN viewNodes}
             \ {viewEdges[j].target : j \in DOMAIN viewEdges}
    ELSE {viewOut.starts[1][i] : i \in DOMAIN viewOut.starts[1]}

\* The ids that can be reached from the roots over at most k edges.
RECURSIVE ReachedWithin(_)
ReachedWithin(k) ==
    IF k = 0
    THEN CallRoots
    ELSE LET R == ReachedWithin(k - 1)
         IN  R \cup {viewEdges[j].target : j \in {i \in DOMAIN viewEdges : viewEdges[i].source \in R}}

\* Every id reachable from a root: a shortest path uses each edge at most once.
Reached == ReachedWithin(Len(viewEdges))

\* The least number of edge hops from any root to v.
HopDistance(v) == CHOOSE k \in 0..Len(viewEdges) :
                      /\ v \in ReachedWithin(k)
                      /\ k > 0 => v \notin ReachedWithin(k - 1)

\* C3: calculateLevels without an explicit root set starts from exactly the
\* nodes that are the target of no edge and gives every id reachable from
\* them its least number of edge hops from a root.
C3_LevelsAreHopDistances ==
    (viewOut.op = "calculateLevels" /\ viewOut.starts = NoStartNodeIds) =>
        \A v \in Reached :
            /\ v \in DOMAIN viewOut.levels
            /\ viewOut.levels[v] = HopDistance(v)
            /\ (viewOut.levels[v] = 0) <=>
                  (/\ \E i \in DOMAIN viewNodes : viewNodes[i].id = v
                   /\ \A j \in DOMAIN viewEdges : viewEdges[j].target # v)

\* C3 witness: the chain 1 -> 2 -> 3 got the levels 0, 1, 2.
C3_Witness ==
    /\ viewOut.op = "calculateLevels"
    /\ viewOut.starts = NoStartNodeIds
    /\ Len(viewNodes) = 3
    /\ viewEdges = <<ViewEdge(1, <<1, 2>>), ViewEdge(2, <<2, 3>>)>>
    /\ viewOut.levels = <<0, 1, 2>>

\* C4: calculateLevels returns a level for every node of the node list, and
\* a node no root reaches gets the maximum level of the reached ids, 0 when
\* nothing was reached.
C4_UnreachedAtMaxLevel ==
    viewOut.op = "calculateLevels" =>
        \A i \in DOMAIN viewNodes :
            LET id == viewNodes[i].id IN
            /\ id \in DOMAIN viewOut.levels
            /\ id \notin Reached =>
                  viewOut.levels[id] = MaxOrZero({HopDistance(v) : v \in Reached})

\* C4 witness: a node on a cycle that no root reaches was put on level 1 or
\* deeper, the deepest level the roots reach.
C4_Witness ==
    /\ viewOut.op = "calculateLevels"
    /\ \E i \in DOMAIN viewNodes :
          /\ viewNodes[i].id \notin Reached
          /\ viewOut.levels[viewNodes[i].id] >= 1
          /\ \E j \in DOMAIN viewEdges :
                viewEdges[j].source = viewNodes[i].id /\ viewEdges[j].target = viewNodes[i].id

(***************************************************************************)
(* Grid layout: properties                                                 *)
(***************************************************************************)
\* The last call laid the nodes out with applyGridLayout.
GridLaidOut ==
    \/ viewOut.op = "applyGridLayout"
    \/ viewOut.op = "render" /\ viewOut.arg = VIEW_TYPES.INTERCONNECTION

\* The cell the caller asked for: the options it passed over the defaults.
\* The renderer passes no layout options to the grid.
GridCell ==
    LET given == IF viewOut.op = "applyGridLayout" THEN CallerOptions[viewOut.arg] ELSE <<>>
        Opt(k) == IF k \in DOMAIN given THEN given[k] ELSE DEFAULT_OPTIONS[k]
    IN  [width  |-> Opt("nodeWidth") + Opt("horizontalGap"),
         height |-> Opt("nodeHeight") + Opt("verticalGap")]

\* C8: applyGridLayout keeps the input order and puts node i (from 0) of n at
\* column i mod c, row floor(i / c), c the least integer with c * c >= n,
\* scaled by the cell size; node 0 is at (0, 0), no two nodes share a
\* position, and the edges do not matter, also when the renderer hands the
\* edge list over as the second argument.
C8_GridPositions ==
    GridLaidOut =>
        LET n == Len(viewNodes)
            out == viewOut.nodes
        IN  /\ Len(out) = n
            /\ \A k \in 1..n :
                  \E c \in 1..n :
                      /\ c * c >= n
                      /\ (c - 1) * (c - 1) < n
                      /\ out[k].id = viewNodes[k].id
                      /\ out[k].position.x = ((k - 1) % c) * GridCell.width
                      /\ out[k].position.y = ((k - 1) \div c) * GridCell.height
            /\ n > 0 => out[1].position = [x |-> 0, y |-> 0]
            /\ \A k, m \in 1..n : k # m => out[k].position # out[m].position

\* C8 witness: the renderer laid out four nodes of an interconnection view
\* that has edges, and the third node starts the second row.
C8_Witness ==
    /\ viewOut.op = "render"
    /\ viewOut.arg = VIEW_TYPES.INTERCONNECTION
    /\ Len(viewNodes) = 4
    /\ Len(viewEdges) >= 1
    /\ viewOut.nodes[3].position = [x |-> 0, y |-> 180]
    /\ viewOut.nodes[2].position = [x |-> 240, y |-> 0]

\* The node at input position i is the source or target of no edge.
HasNoEdges(i) ==
    \A j \in DOMAIN viewEdges :
        viewEdges[j].source # viewNodes[i].id /\ viewEdges[j].target # viewNodes[i].id

\* C21 (as amended): calculateLevels called without start ids gives a node
\* that has no edges level 0, whatever other nodes and edges there are.
C21_IsolatedNodeIsRoot ==
    (viewOut.op = "calculateLevels" /\ viewOut.starts = NoStartNodeIds) =>
        \A i \in DOMAIN viewNodes :
            HasNoEdges(i) => /\ viewNodes[i].id \in DOMAIN viewOut.levels
                             /\ viewOut.levels[viewNodes[i].id] = 0

\* C21 witness: beside the chain 1 -> 2 -> 3, node 4 has no edges and is
\* on level 0.
C21_Witness ==
    /\ viewOut.op = "calculateLevels"
    /\ viewOut.starts = NoStartNodeIds
    /\ Len(viewNodes) = 4
    /\ HasNoEdges(4)
    /\ viewOut.levels = (1 :> 0) @@ (2 :> 1) @@ (3 :> 2) @@ (4 :> 0)

\* C21 as stated: calculateLevels gives a node that has no edges level 0,
\* with or without start ids.
C21_Original ==
    viewOut.op = "calculateLevels" =>
        \A i \in DOMAIN viewNodes :
            HasNoEdges(i) => /\ viewNodes[i].id \in DOMAIN viewOut.levels
                             /\ viewOut.levels[viewNodes[i].id] = 0

\* The levels that applyLevelLayout computes for the view.
ViewLevels == calculateLevels(viewNodes, viewEdges, NoStartNodeIds)

\* The options in effect in the last applyLevelLayout call.
LevelOptions == MergeOptions(CallerOptions[viewOut.arg])

\* The coordinate of output node k along the level axis, and across it.
AlongLevels(k) ==
    IF viewOut.layoutDirection = "TB" THEN viewOut.nodes[k].position.y
                                      ELSE viewOut.nodes[k].position.x
AcrossLevels(k) ==
    IF viewOut.layoutDirection = "TB" THEN viewOut.nodes[k].position.x
                                      ELSE viewOut.nodes[k].position.y

\* C22: in the result of applyLevelLayout a node of a lower level has a
\* strictly smaller coordinate along the level axis, y for TB and x for LR,
\* and the LR result is the TB result with x and y swapped.
C22_LevelAxisIncreases ==
    viewOut.op = "applyLevelLayout" =>
        /\ \A u, v \in DOMAIN viewNodes :
              ViewLevels[viewNodes[u].id] < ViewLevels[viewNodes[v].id] =>
                  AlongLevels(u) < AlongLevels(v)
        /\ viewOut.layoutDirection = "LR" =>
              LET tb == applyLevelLayout(viewNodes, viewEdges,
                            [k \in (DOMAIN CallerOptions[viewOut.arg]) \cup {"direction"} |->
                                IF k = "direction" THEN "TB"
                                ELSE CallerOptions[viewOut.arg][k]])
              IN  \A k \in DOMAIN viewNodes :
                      viewOut.nodes[k].position =
                          [x |-> tb[k].position.y, y |-> tb[k].position.x]

\* C22 witness: the chain 1 -> 2 -> 3 laid out left to right with the
\* default options: x grows with the level, y is the same.
C22_Witness ==
    /\ viewOut.op = "applyLevelLayout"
    /\ viewOut.layoutDirection = "LR"
    /\ viewOut.arg = "defaults"
    /\ Len(viewNodes) = 3
    /\ [k \in 1..3 |-> viewOut.nodes[k].position] =
           <<[x |-> 50, y |-> 220], [x |-> 230, y |-> 220], [x |-> 410, y |-> 220]>>

\* C30: applyLevelLayout returns the nodes in input order with only the
\* position changed; any two nodes get different positions, those put on
\* one level because no root reaches them included; the nodes of one level
\* are nodeWidth + horizontalGap apart, in input order.
C30_LevelLayoutSeparates ==
    viewOut.op = "applyLevelLayout" =>
        /\ Len(viewOut.nodes) = Len(viewNodes)
        /\ \A k \in DOMAIN viewNodes :
              [viewOut.nodes[k] EXCEPT !.position = viewNodes[k].position] = viewNodes[k]
        /\ \A j, k \in DOMAIN viewNodes :
              j # k => viewOut.nodes[j].position # viewOut.nodes[k].position
        /\ \A j, k \in DOMAIN viewNodes :
              ( /\ j < k
                /\ ViewLevels[viewNodes[j].id] = ViewLevels[viewNodes[k].id]
                /\ \A h \in (j + 1)..(k - 1) :
                      ViewLevels[viewNodes[h].id] # ViewLevels[viewNodes[j].id] ) =>
                  AcrossLevels(k) =
                      AcrossLevels(j) + LevelOptions.nodeWidth + LevelOptions.horizontalGap

\* C30 witness: nodes 2 and 3 lie on a cycle that no root reaches and share
\* level 0 with the root 1 and with node 4; the four are 240 apart.
C30_Witness ==
    /\ viewOut.op = "applyLevelLayout"
    /\ viewOut.arg = "defaults"
    /\ viewOut.layoutDirection = "TB"
    /\ Len(viewNodes) = 4
    /\ \E a, b \in DOMAIN viewEdges :
          /\ viewEdges[a].source = 2 /\ viewEdges[a].target = 3
          /\ viewEdges[b].source = 3 /\ viewEdges[b].target = 2
    /\ [k \in 1..4 |-> viewOut.nodes[k].position.x] = <<-140, 100, 340, 580>>
    /\ \A k \in 1..4 : viewOut.nodes[k].position.y = 50

(***************************************************************************)
(* View renderer: properties                                               *)
(***************************************************************************)
\* The ids and positions of a node list.
Placement(ns) == [i \in DOMAIN ns |-> [id |-> ns[i].id, position |-> ns[i].position]]

\* C17: the view renderer lays a view out on the grid when its view type is
\* the interconnection view and by levels for every other view type, the
\* absent one and an unregistered one included; createLayoutStrategy returns
\* the general-view strategy for every view type.
C17_LayoutByViewType ==
    /\ viewOut.op = "render" =>
           Placement(viewOut.nodes) =
               IF ResolvedViewType(viewOut.declared) = VIEW_TYPES.INTERCONNECTION
               THEN Placement(applyGridLayout(viewNodes, <<>>))
               ELSE Placement(applyLevelLayout(viewNodes, viewEdges,
                                  [direction |-> viewOut.layoutDirection]))
    /\ viewOut.op = "createLayoutStrategy" => viewOut.strategy = "GeneralViewLayout"

\* C17 witness: a view of three nodes in a chain that declares no view type,
\* on itself or on its definition, has been rendered by levels, which is
\* not where the grid puts the nodes.
C17_Witness ==
    /\ viewOut.op = "render"
    /\ viewOut.declared = [view |-> Absent, definition |-> Absent]
    /\ Len(viewNodes) = 3
    /\ Len(viewEdges) = 2
    /\ viewOut.nodes[3].position = [x |-> 220, y |-> 410]
    /\ Placement(viewOut.nodes) # Placement(applyGridLayout(viewNodes, <<>>))

\* The keys hidden when details are off.
DetailKeys == {"entryAction", "exitAction", "doActivity"}

\* The two node lists agree on everything but the data.
SameButData(ns, ms) ==
    /\ Len(ns) = Len(ms)
    /\ \A i \in DOMAIN ns :
           /\ ns[i].id = ms[i].id
           /\ ns[i].type = ms[i].type
           /\ ns[i].position = ms[i].position

\* The data of every node of ns is the data of the node of ms without keys.
DataWithout(ns, ms, keys) ==
    \A i \in DOMAIN ns :
        /\ DOMAIN ns[i].data = (DOMAIN ms[i].data) \ keys
        /\ \A k \in DOMAIN ns[i].data : ns[i].data[k] = ms[i].data[k]

\* The edges are those of es, in order, with no label.
SameButLabel(out, es) ==
    /\ Len(out) = Len(es)
    /\ \A i \in DOMAIN es :
           /\ out[i].id = es[i].id
           /\ out[i].source = es[i].source
           /\ out[i].target = es[i].target
           /\ out[i].label = NoLabel

\* C18: stripEdgeLabels returns the same edges in the same order without
\* their labels; stripNodeData returns the same nodes in the same order with
\* id, type and position unchanged and exactly the listed data keys removed;
\* a render with details off removes entryAction, exitAction and doActivity
\* from the nodes of a state transition view and nothing from any other.
C18_StripRemovesOnlyTheListed ==
    /\ viewOut.op = "stripEdgeLabels" => SameButLabel(viewOut.edges, viewEdges)
    /\ viewOut.op = "stripNodeData" =>
           /\ SameButData(viewOut.nodes, viewNodes)
           /\ DataWithout(viewOut.nodes, viewNodes, viewOut.keys)
    /\ viewOut.op = "render" =>
           /\ IF viewOut.showLabels THEN viewOut.edges = viewEdges
                                    ELSE SameButLabel(viewOut.edges, viewEdges)
           /\ DataWithout(viewOut.nodes, viewNodes,
                          IF ~viewOut.showDetails /\ viewOut.arg = VIEW_TYPES.STATE_TRANSITION
                          THEN DetailKeys ELSE {})

\* C18 witness: a state transition view of two nodes and an edge has been
\* rendered with labels and details off; its nodes keep their name only.
C18_Witness ==
    /\ viewOut.op = "render"
    /\ viewOut.arg = VIEW_TYPES.STATE_TRANSITION
    /\ ~viewOut.showDetails
    /\ Len(viewNodes) = 2
    /\ Len(viewEdges) = 1
    /\ DOMAIN viewOut.nodes[1].data = {"name"}
    /\ DOMAIN viewNodes[1].data = {"name", "entryAction", "doActivity"}
    /\ viewOut.edges[1].label = NoLabel

(***************************************************************************)
(* View configuration filters (types)                                      *)
(***************************************************************************)
\* Array.prototype.includes on a list.
ListIncludes(list, v) == \E i \in DOMAIN list : list[i] = v

\* shouldShowNodeType.
shouldShowNodeType(nodeType, cfg) ==
    IF cfg.includeNodeTypes = Absent \/ Len(cfg.includeNodeTypes[1]) = 0
    THEN TRUE
    ELSE ListIncludes(cfg.includeNodeTypes[1], nodeType)

\* An allow-list test that reads an empty list as a list that allows nothing.
shouldShowEdgeTypeEmptyAllowsNone(edgeType, cfg) ==
    IF cfg.includeEdgeTypes = Absent
    THEN TRUE
    ELSE ListIncludes(cfg.includeEdgeTypes[1], edgeType)

\* shouldShowEdgeType.
shouldShowEdgeType(edgeType, cfg) ==
    IF cfg.includeEdgeTypes = Absent \/ Len(cfg.includeEdgeTypes[1]) = 0
    THEN TRUE
    ELSE ListIncludes(cfg.includeEdgeTypes[1], edgeType)

(***************************************************************************)
(* Graph Builder (GeneralViewLayout)                                       *)
(***************************************************************************)
\* Node type tags.
PartUsage == <<"P","a","r","t","U","s","a","g","e">>
PartDef == <<"P","a","r","t","D","e","f">>
PortUsage == <<"P","o","r","t","U","s","a","g","e">>
PortDef == <<"P","o","r","t","D","e","f">>
AttributeUsage == <<"A","t","t","r","i","b","u","t","e","U","s","a","g","e">>
AttributeDef == <<"A","t","t","r","i","b","u","t","e","D","e","f">>
ReferenceUsage == <<"R","e","f","e","r","e","n","c","e","U","s","a","g","e">>
Feature == <<"F","e","a","t","u","r","e">>
\* A tag that is no registered node type.
Widget == <<"W","i","d","g","e","t">>
\* Tags that are no registered node type: "ViewPort", "port", "Attribute".
ViewPort == <<"V","i","e","w","P","o","r","t">>
LowerPort == <<"p","o","r","t">>
AttributeTag == <<"A","t","t","r","i","b","u","t","e">>
\* The reserved fallback type 'default'.
DefaultNodeType == <<"d","e","f","a","u","l","t">>

\* VALID_NODE_TYPES: the values of NODE_TYPES of the diagram-core package, as
\* far as the model's symbols use them.
VALID_NODE_TYPES ==
    {PartUsage, PartDef, PortUsage, PortDef, AttributeUsage, AttributeDef,
     ReferenceUsage, Feature}

\* isValidNodeType that takes every tag for registered.
isValidNodeTypeAny(nodeType) == TRUE

\* isValidNodeType.
isValidNodeType(nodeType) == nodeType \in VALID_NODE_TYPES

\* getNodeCategory with the port rule tested at the start of the tag only.
getNodeCategoryByPrefix(nodeType) ==
    IF MatchesAt(nodeType, <<"P","o","r","t">>, 1) THEN "port"
    ELSE IF ListIncludes(<<AttributeUsage, AttributeDef, ReferenceUsage, Feature>>, nodeType)
         THEN "property"
         ELSE "structural"

\* getNodeCategory.
getNodeCategory(nodeType) ==
    IF Includes(nodeType, <<"P","o","r","t">>) THEN "port"
    ELSE IF ListIncludes(<<AttributeUsage, AttributeDef, ReferenceUsage, Feature>>, nodeType)
         THEN "property"
         ELSE "structural"

\* qualifiedName.replace(/::/g, '_'): every '::', scanned from the left.
RECURSIVE ReplaceSeparators(_)
ReplaceSeparators(str) ==
    IF str = <<>> THEN <<>>
    ELSE IF MatchesAt(str, NamespaceSeparator, 1)
         THEN <<"_">> \o ReplaceSeparators(SubSeq(str, 3, Len(str)))
         ELSE <<Head(str)>> \o ReplaceSeparators(Tail(str))

\* toNodeId.
toNodeId(qualifiedName) == ReplaceSeparators(qualifiedName)

\* str.split('::'): seg is the segment read so far.
RECURSIVE SplitSeparators(_, _)
SplitSeparators(str, seg) ==
    IF str = <<>> THEN <<seg>>
    ELSE IF MatchesAt(str, NamespaceSeparator, 1)
         THEN <<seg>> \o SplitSeparators(SubSeq(str, 3, Len(str)), <<>>)
         ELSE SplitSeparators(Tail(str), Append(seg, Head(str)))

\* str.split('::').pop().
LastSegment(str) ==
    LET segs == SplitSeparators(str, <<>>) IN segs[Len(segs)]

\* The display line of a property or port symbol (apply, step 1).
FormatLine(symbol) ==
    LET named == symbol.name
        directed == IF symbol.direction # <<>>
                    THEN symbol.direction \o <<" ">> \o named ELSE named
    IN  IF symbol.typedBy # <<>>
        THEN directed \o <<" ", ":", " ">> \o LastSegment(symbol.typedBy)
        ELSE directed

\* structuralSymbols that takes every symbol that passes the filter.
StructuralSymbolsOfAnyCategory(syms, cfg) ==
    SelectSeq(syms, LAMBDA sym : shouldShowNodeType(sym.nodeType, cfg))

\* structuralSymbols after the loop of step 1.
StructuralSymbols(syms, cfg) ==
    SelectSeq(syms, LAMBDA sym : /\ shouldShowNodeType(sym.nodeType, cfg)
                                 /\ getNodeCategory(sym.nodeType) = "structural")

\* propertiesByParent (category "property") and portsByParent (category
\* "port") after the loop of step 1.
LinesByParent(syms, cfg, category) ==
    LET inline == SelectSeq(syms, LAMBDA sym : /\ shouldShowNodeType(sym.nodeType, cfg)
                                               /\ getNodeCategory(sym.nodeType) = category
                                               /\ sym.parent # <<>>)
    IN  [q \in {inline[i].parent : i \in DOMAIN inline} |->
            LET mine == SelectSeq(inline, LAMBDA sym : sym.parent = q)
            IN  [i \in DOMAIN mine |-> FormatLine(mine[i])]]

\* map.get(key) || [].
GetOrEmpty(map, key) == IF key \in DOMAIN map THEN map[key] ELSE <<>>

\* The separator line '---'.
PortSeparator == <<"-", "-", "-">>

\* allFeatures with the ports put before the properties.
MergeFeaturesPortsFirst(properties, ports, own) ==
    SelectSeq((IF Len(ports) > 0 THEN ports \o <<PortSeparator>> ELSE <<>>)
              \o properties \o own,
              LAMBDA f : f # <<>>)

\* allFeatures of buildNodes: the merged content of one node.
MergeFeatures(properties, ports, own) ==
    SelectSeq(properties
              \o (IF Len(ports) > 0 THEN <<PortSeparator>> \o ports ELSE <<>>)
              \o own,
              LAMBDA f : f # <<>>)

\* The parent link of buildNodes: parentId && nodeIds.has(parentId).
ParentLink(parentId, nodeIds) ==
    IF parentId # <<>> /\ parentId \in nodeIds THEN parentId ELSE <<>>

\* buildNodes.
buildNodes(syms, propertiesByParent, portsByParent) ==
    LET nodeIds == {toNodeId(syms[i].qualifiedName) : i \in DOMAIN syms}
        hasChildren == {toNodeId(syms[i].parent) :
                           i \in {j \in DOMAIN syms : syms[j].parent # <<>>}}
    IN  [i \in DOMAIN syms |->
            LET symbol == syms[i]
                id == toNodeId(symbol.qualifiedName)
                parentId == IF symbol.parent # <<>> THEN toNodeId(symbol.parent) ELSE <<>>
                nodeType == IF isValidNodeType(symbol.nodeType)
                            THEN symbol.nodeType ELSE DefaultNodeType
                allFeatures == MergeFeatures(GetOrEmpty(propertiesByParent, symbol.qualifiedName),
                                             GetOrEmpty(portsByParent, symbol.qualifiedName),
                                             symbol.features)
                container == id \in hasChildren
                size == calculateNodeSize(allFeatures, container)
                link == ParentLink(parentId, nodeIds)
            IN  [id |-> id,
                 type |-> nodeType,
                 position |-> [x |-> 0, y |-> 0],
                 data |-> [name |-> symbol.name,
                           qualifiedName |-> symbol.qualifiedName,
                           features |-> IF Len(allFeatures) > 0
                                        THEN Given(allFeatures) ELSE Absent,
                           typedBy |-> symbol.typedBy,
                           direction |-> symbol.direction],
                 style |-> [width |-> size.width, height |-> size.height],
                 parentId |-> link,
                 extent |-> IF link # <<>> THEN "parent" ELSE "undefined"]]

\* The endpoint test of buildEdges that looks at the source only.
EndpointsPresentSourceOnly(rel, nodeIds) == toNodeId(rel.source) \in nodeIds

\* The endpoint test of buildEdges.
EndpointsPresent(rel, nodeIds) ==
    toNodeId(rel.source) \in nodeIds /\ toNodeId(rel.target) \in nodeIds

\* buildEdges.  The id `edge_${i}` is modelled by the number i.
buildEdges(rels, ns) ==
    LET nodeIds == {ns[i].id : i \in DOMAIN ns}
        indexed == [i \in DOMAIN rels |-> [i |-> i - 1, rel |-> rels[i]]]
        kept == SelectSeq(indexed, LAMBDA e : EndpointsPresent(e.rel, nodeIds))
    IN  [k \in DOMAIN kept |->
            [id |-> kept[k].i,
             source |-> toNodeId(kept[k].rel.source),
             target |-> toNodeId(kept[k].rel.target),
             type |-> kept[k].rel.type,
             label |-> kept[k].rel.type]]

\* apply, steps 1 to 3: the graph handed to applyElkLayout.
BuiltGraph(syms, rels, cfg) ==
    LET ns == buildNodes(StructuralSymbols(syms, cfg),
                         LinesByParent(syms, cfg, "property"),
                         LinesByParent(syms, cfg, "port"))
        filteredRelationships == SelectSeq(rels, LAMBDA r : shouldShowEdgeType(r.type, cfg))
    IN  [nodes |-> ns, edges |-> buildEdges(filteredRelationships, ns)]

(***************************************************************************)
(* Hierarchical engine adapter (elk-layout)                                *)
(***************************************************************************)
\* The ids of the nodes in the first k levels of the tree that buildElkGraph
\* nests under the root: level 1 holds the nodes without parentId, each
\* further level the children of the level above.
RECURSIVE ElkTreeIds(_, _)
ElkTreeIds(ns, k) ==
    IF k = 0 THEN {}
    ELSE LET above == ElkTreeIds(ns, k - 1)
         IN  {ns[i].id : i \in {j \in DOMAIN ns :
                                   ns[j].parentId = <<>> \/ ns[j].parentId \in above}}

\* The nodes at depth k of the recursion of buildElkNode: depth 1 holds the
\* nodes without parentId, each further depth the nodes whose parentId is
\* the id of a node of the depth above.
RECURSIVE ElkNodesAtDepth(_, _)
ElkNodesAtDepth(ns, k) ==
    IF k = 1 THEN {i \in DOMAIN ns : ns[i].parentId = <<>>}
    ELSE LET above == {ns[i].id : i \in ElkNodesAtDepth(ns, k - 1)}
         IN  {i \in DOMAIN ns : ns[i].parentId # <<>> /\ ns[i].parentId \in above}

\* buildElkNode never returns: a node deeper than the number of nodes is
\* below itself, so the recursion goes on until the call stack is used up
\* (a RangeError).  It takes two nodes of one id, one of them under that id.
ExhaustsStack(ns) == ElkNodesAtDepth(ns, Len(ns) + 1) # {}

\* childrenMap.get(key) || []: the input positions of the nodes whose
\* parentId is key, in input order.  The key of the nodes without parentId
\* is undefined, the empty sequence here.
ChildrenOf(ns, key) ==
    LET RECURSIVE From(_)
        From(i) == IF i > Len(ns) THEN <<>>
                   ELSE (IF ns[i].parentId = key THEN <<i>> ELSE <<>>) \o From(i + 1)
    IN  From(1)

\* A container sub-configuration whose top padding is a fixed 20.
ContainerOptionsFixedTop(lines) ==
    [algorithm |-> "rectpacking", spacing |-> 30,
     padding |-> [top |-> 20, left |-> 20, bottom |-> 30, right |-> 20]]

\* layoutOptions of a node with children: rectpacking, and the padding
\* [top=topPadding,left=20,bottom=30,right=20] with topPadding from
\* calculateElkTopPadding of the node's own features.
ContainerOptions(lines) ==
    [algorithm |-> "rectpacking", spacing |-> 30,
     padding |-> [top |-> calculateElkTopPadding(lines), left |-> 20,
                  bottom |-> 30, right |-> 20]]

\* node.style?.width || node.measured?.width || 180 (and height, 80) of a
\* node that was not measured.
ElkSize(n) ==
    [width |-> IF n.style.width # 0 THEN n.style.width ELSE 180,
     height |-> IF n.style.height # 0 THEN n.style.height ELSE 80]

\* buildElkNode: the ELK node of the node at input position i followed by
\* the ELK nodes nested in it, in the order of the recursion; depth tells
\* which is nested in which.  buildElkNodes maps it over a list of nodes.
RECURSIVE buildElkNode(_, _, _)
RECURSIVE buildElkNodes(_, _, _)
buildElkNode(ns, i, depth) ==
    LET children == ChildrenOf(ns, ns[i].id)
        lines == IF ns[i].data.features = Absent THEN <<>> ELSE ns[i].data.features[1]
    IN  << [node |-> i, id |-> ns[i].id, depth |-> depth,
            width |-> ElkSize(ns[i]).width, height |-> ElkSize(ns[i]).height,
            layoutOptions |-> IF Len(children) > 0
                              THEN Given(ContainerOptions(lines)) ELSE Absent] >>
            \o buildElkNodes(ns, children, depth + 1)

buildElkNodes(ns, list, depth) ==
    IF list = <<>> THEN <<>>
    ELSE buildElkNode(ns, Head(list), depth) \o buildElkNodes(ns, Tail(list), depth)

\* An edge list of the request that keeps the edges whose source exists.
ElkEdgesBySource(ns, es) ==
    LET nodeIds == {ns[i].id : i \in DOMAIN ns}
        kept == SelectSeq(es, LAMBDA e : e.source \in nodeIds)
    IN  [k \in DOMAIN kept |->
            [id |-> kept[k].id, sources |-> <<kept[k].source>>,
             targets |-> <<kept[k].target>>]]

\* elkEdges: the edges whose source and target are ids of the given nodes.
ElkEdges(ns, es) ==
    LET nodeIds == {ns[i].id : i \in DOMAIN ns}
        kept == SelectSeq(es, LAMBDA e : e.source \in nodeIds /\ e.target \in nodeIds)
    IN  [k \in DOMAIN kept |->
            [id |-> kept[k].id, sources |-> <<kept[k].source>>,
             targets |-> <<kept[k].target>>]]

\* buildElkGraph, for nodes that do not use the stack up: the request, with
\* the nodes it was built from.
buildElkGraph(ns, es) ==
    [sent |-> TRUE, nodes |-> ns,
     children |-> buildElkNodes(ns, ChildrenOf(ns, <<>>), 1),
     edges |-> ElkEdges(ns, es),
     layouted |-> <<>>]

\* The id of the root of the request.
RootId == <<"r", "o", "o", "t">>

\* collectPositions that reads the node with the id of the root as well.
collectPositionsOfAll(layoutedGraph) == layoutedGraph

\* collectPositions: the position of every reported id but 'root'.
collectPositions(layoutedGraph) ==
    [id \in (DOMAIN layoutedGraph) \ {RootId} |-> layoutedGraph[id]]

\* The layouted graph the engine answers with, as collectPositions reads it:
\* the position and size of every id of the request tree.  The engine is a
\* collaborator: it lays the nodes out from an origin of its choice and
\* reports the sizes of the request.
ElkLayout(ns, origin) ==
    LET FirstWithId(id) == CHOOSE i \in DOMAIN ns :
                               ns[i].id = id /\ \A j \in 1..(i - 1) : ns[j].id # id
    IN  [id \in ElkTreeIds(ns, Len(ns)) |->
            [x |-> origin + 10 * FirstWithId(id), y |-> origin,
             width |-> ElkSize(ns[FirstWithId(id)]).width,
             height |-> ElkSize(ns[FirstWithId(id)]).height]]

\* applyLayoutToNodes: a node whose id the engine reported takes the reported
\* position and size, any other node is returned as it is.
applyLayoutToNodes(ns, layoutedGraph) ==
    [i \in DOMAIN ns |->
        IF ns[i].id \in DOMAIN collectPositions(layoutedGraph)
        THEN LET pos == collectPositions(layoutedGraph)[ns[i].id]
             IN  [ns[i] EXCEPT !.position = [x |-> pos.x, y |-> pos.y],
                               !.style = [width |-> IF pos.width # 0 THEN pos.width
                                                    ELSE ns[i].style.width,
                                          height |-> IF pos.height # 0 THEN pos.height
                                                     ELSE ns[i].style.height]]
        ELSE ns[i]]

(***************************************************************************)
(* GeneralViewLayout.apply on bounded symbol lists                         *)
(***************************************************************************)
MaxSymbols == 3

\* Qualified names: "P", "P::x", "P_x", "P::p".
NameP == <<"P">>
NamePx == <<"P", ":", ":", "x">>
NameP_x == <<"P", "_", "x">>
NamePp == <<"P", ":", ":", "p">>

QualifiedNames == {NameP, NamePx, NameP_x, NamePp}

\* The node types a symbol of each qualified name may have.
NodeTypesOf(qn) ==
    IF qn = NamePx THEN {AttributeUsage, ReferenceUsage, PartUsage}
    ELSE IF qn = NamePp THEN {PortUsage, AttributeUsage}
    ELSE {PartUsage, Widget}

\* The parent a symbol may name: none, "P" or "P::x" (dangling when the
\* list holds no such symbol, the symbol itself when it is its own name).
ParentNames == {<<>>, NameP, NamePx}

\* Own features of a part: "m : M", an empty line, "g".
PartFeatures == << <<"m", " ", ":", " ", "M">>, <<>>, <<"g">> >>

\* A DiagramSymbol.  Its name is the last segment of its qualified name; the
\* optional fields follow its type: a part carries own features, an
\* attribute a qualified type, a port a direction, a reference both.
Symbol(qn, nodeType, parent) ==
    [name |-> LastSegment(qn),
     qualifiedName |-> qn,
     nodeType |-> nodeType,
     parent |-> parent,
     features |-> IF nodeType = PartUsage THEN PartFeatures ELSE <<>>,
     typedBy |-> IF nodeType = AttributeUsage THEN <<"K", ":", ":", "T">>
                 ELSE IF nodeType = ReferenceUsage THEN <<"T">> ELSE <<>>,
     direction |-> IF nodeType = PortUsage THEN <<"i", "n">>
                   ELSE IF nodeType = ReferenceUsage THEN <<"o", "u", "t">> ELSE <<>>]

\* View configurations: no filter, and a filter that lets parts, attributes
\* and references through (widgets and ports are dropped).
NodeFilters == {Absent, Given(<<PartUsage, AttributeUsage, ReferenceUsage>>)}

\* Coordinates origins the engine may choose.
EngineOrigins == {0, 40}

Init ==
    /\ symbols = <<>>
    /\ relationships = <<>>
    /\ \E f \in NodeFilters : config = [includeNodeTypes |-> f, includeEdgeTypes |-> Absent]
    /\ pc = "input"
    /\ nodes = <<>>
    /\ edges = <<>>
    /\ elkCall = NoElkCall
    /\ InitIdleSizing
    /\ InitIdleViews
    /\ InitIdleRuns
    /\ InitIdleTheme

\* The caller's symbol list grows by one symbol with a fresh qualified name.
AddSymbol(qn, nodeType, parent) ==
    /\ pc = "input"
    /\ Len(symbols) < MaxSymbols
    /\ \A i \in DOMAIN symbols : symbols[i].qualifiedName # qn
    /\ symbols' = Append(symbols, Symbol(qn, nodeType, parent))
    /\ UNCHANGED <<relationships, config, pc, nodes, edges, elkCall, sizeVars, viewVars, runVars, themeVars>>

\* apply up to its await: the graph is built and handed to applyElkLayout.
Apply ==
    /\ pc = "input"
    /\ LET built == BuiltGraph(symbols, relationships, config)
       IN  /\ nodes' = built.nodes
           /\ edges' = built.edges
    /\ pc' = "layout"
    /\ UNCHANGED <<symbols, relationships, config, elkCall, sizeVars, viewVars, runVars, themeVars>>

\* applyElkLayout with no nodes returns them without calling the engine.
LayoutOfNothing ==
    /\ pc = "layout"
    /\ Len(nodes) = 0
    /\ pc' = "done"
    /\ UNCHANGED <<symbols, relationships, config, nodes, edges, elkCall, sizeVars, viewVars, runVars, themeVars>>

\* buildElkGraph uses the call stack up: applyElkLayout, and apply with it,
\* fails before the engine is asked.
LayoutOverflow ==
    /\ pc = "layout"
    /\ Len(nodes) > 0
    /\ ExhaustsStack(nodes)
    /\ pc' = "failed"
    /\ UNCHANGED <<symbols, relationships, config, nodes, edges, elkCall, sizeVars, viewVars, runVars, themeVars>>

\* The engine answers; apply returns the positioned nodes and the edges.
LayoutDone(origin) ==
    /\ pc = "layout"
    /\ Len(nodes) > 0
    /\ ~ExhaustsStack(nodes)
    /\ elkCall' = [buildElkGraph(nodes, edges) EXCEPT !.layouted = ElkLayout(nodes, origin)]
    /\ nodes' = applyLayoutToNodes(nodes, ElkLayout(nodes, origin))
    /\ pc' = "done"
    /\ UNCHANGED <<symbols, relationships, config, edges, sizeVars, viewVars, runVars, themeVars>>

Next ==
    \/ \E qn \in QualifiedNames, p \in ParentNames :
          \E t \in NodeTypesOf(qn) : AddSymbol(qn, t, p)
    \/ Apply
    \/ LayoutOfNothing
    \/ LayoutOverflow
    \/ \E o \in EngineOrigins : LayoutDone(o)

Spec == Init /\ [][Next]_vars

(***************************************************************************)
(* Graph Builder: properties                                               *)
(***************************************************************************)
\* apply has built its graph.
Built == pc \in {"layout", "done"}

\* The symbol a node was built from.
SymbolOfNode(n) ==
    symbols[CHOOSE i \in DOMAIN symbols : symbols[i].qualifiedName = n.data.qualifiedName]

\* The symbols that pass the node-type filter and are structural: the
\* retained structural symbols.
RetainedStructural ==
    {i \in DOMAIN symbols : /\ shouldShowNodeType(symbols[i].nodeType, config)
                            /\ getNodeCategory(symbols[i].nodeType) = "structural"}

\* The lines of the symbols at the positions idx, in input order.
RECURSIVE LinesInOrder(_, _)
LinesInOrder(idx, from) ==
    IF from > Len(symbols) THEN <<>>
    ELSE (IF from \in idx
          THEN << (IF symbols[from].direction = <<>> THEN <<>>
                   ELSE symbols[from].direction \o <<" ">>)
                  \o symbols[from].name
                  \o (IF symbols[from].typedBy = <<>> THEN <<>>
                      ELSE <<" ", ":", " ">> \o LastSegment(symbols[from].typedBy)) >>
          ELSE <<>>)
         \o LinesInOrder(idx, from + 1)

\* A list of lines without its empty lines.
RECURSIVE WithoutEmptyLines(_)
WithoutEmptyLines(lines) ==
    IF lines = <<>> THEN <<>>
    ELSE (IF Head(lines) = <<>> THEN <<>> ELSE <<Head(lines)>>)
         \o WithoutEmptyLines(Tail(lines))

\* The inline symbols of one category that name qn as parent.
InlineChildren(qn, category) ==
    {i \in DOMAIN symbols : /\ getNodeCategory(symbols[i].nodeType) = category
                            /\ symbols[i].parent = qn}

\* The content list of a node; a node without the field has no content.
ContentOf(n) == IF n.data.features = Absent THEN <<>> ELSE n.data.features[1]

\* C1: symbols with pairwise distinct qualified names give nodes with
\* pairwise distinct ids.  (The symbol lists of the model hold no qualified
\* name twice.)
C1_DistinctIds ==
    Built => \A i, j \in DOMAIN nodes : i # j => nodes[i].id # nodes[j].id

\* C5 (as amended): the content of every node is, with empty lines removed,
\* the lines of its property symbols that pass the node-type filter in input
\* order, then, if and only if a port symbol of it passes the filter, the
\* separator "---" and the port lines in input order, then the symbol's own
\* features in their order; a node whose list is empty carries no list.
C5_ContentOrder ==
    Built =>
        \A k \in DOMAIN nodes :
            LET qn == nodes[k].data.qualifiedName
                shown == {i \in DOMAIN symbols : shouldShowNodeType(symbols[i].nodeType, config)}
                props == LinesInOrder(InlineChildren(qn, "property") \cap shown, 1)
                ports == LinesInOrder(InlineChildren(qn, "port") \cap shown, 1)
                content == WithoutEmptyLines(props
                                             \o (IF ports # <<>> THEN <<PortSeparator>> ELSE <<>>)
                                             \o ports
                                             \o SymbolOfNode(nodes[k]).features)
            IN  /\ content = <<>> => nodes[k].data.features = Absent
                /\ content # <<>> => nodes[k].data.features = <<content>>

\* C5 witness: parent P with the property x of type T and the port p of
\* direction in has the content "x : T", "---", "in p".
C5_Witness ==
    /\ Built
    /\ \E k \in DOMAIN nodes :
          /\ nodes[k].data.qualifiedName = NameP
          /\ ContentOf(nodes[k]) =
                << <<"x", " ", ":", " ", "T">>, <<"-", "-", "-">>, <<"i", "n", " ", "p">> >>

\* C5 as stated: the content is exactly the lines of the node's property
\* symbols, the separator and the port lines if it has a port line, and the
\* symbol's own features.
C5_Original ==
    Built =>
        \A k \in DOMAIN nodes :
            LET qn == nodes[k].data.qualifiedName
                props == LinesInOrder(InlineChildren(qn, "property"), 1)
                ports == LinesInOrder(InlineChildren(qn, "port"), 1)
            IN  ContentOf(nodes[k]) =
                    props
                    \o (IF ports # <<>> THEN <<PortSeparator>> ELSE <<>>)
                    \o ports
                    \o SymbolOfNode(nodes[k]).features

\* The node has the size of a container.
SizedAsContainer(n) ==
    n.style.width = minContainerWidth /\ n.style.height >= minContainerHeight

\* C9: a node is sized as a container if and only if some other retained
\* structural symbol names the node's symbol as its parent.
C9_ContainerIffChild ==
    Built =>
        \A k \in DOMAIN nodes :
            SizedAsContainer(nodes[k]) <=>
                \E i \in RetainedStructural :
                    /\ symbols[i].qualifiedName # nodes[k].data.qualifiedName
                    /\ symbols[i].parent = nodes[k].data.qualifiedName

\* The retained structural symbol, if any, with the qualified name qn.
RetainedNamed(qn) == {i \in RetainedStructural : symbols[i].qualifiedName = qn}

\* C10: a parentId that is set is the id of a node of the same output, and a
\* structural symbol whose parent is absent, filtered out or not structural
\* gives a node without parentId.
C10_ParentPresent ==
    Built =>
        \A k \in DOMAIN nodes :
            /\ nodes[k].parentId # <<>> =>
                  \E j \in DOMAIN nodes : nodes[j].id = nodes[k].parentId
            /\ RetainedNamed(SymbolOfNode(nodes[k]).parent) = {} =>
                  nodes[k].parentId = <<>>

(***************************************************************************)
(* GeneralViewLayout.apply on bounded symbol and relationship lists        *)
(***************************************************************************)
MaxEndpointSymbols == 2
MaxRelationships == 2

\* The node types of the symbols that relationships may name: "P" is a
\* part, "P::x" a part or an attribute (not structural), "P_x" a widget.
EndpointTypesOf(qn) ==
    IF qn = NameP THEN {PartUsage}
    ELSE IF qn = NamePx THEN {PartUsage, AttributeUsage}
    ELSE {Widget}

EndpointNames == {NameP, NamePx, NameP_x}

\* A DiagramRelationship; its optional label and multiplicity are not read
\* by the builder.
Relationship(type, source, target) == [type |-> type, source |-> source, target |-> target]

RelationshipTypes == {"composition", "typing"}
RelationshipSources == {NameP, NamePx}
RelationshipTargets == {NameP, NameP_x}

\* View configurations: no filter, a node filter that drops widgets, an
\* edge filter that lets only typing through, and two empty lists.
EdgeConfigs ==
    {[includeNodeTypes |-> Absent, includeEdgeTypes |-> Absent],
     [includeNodeTypes |-> Given(<<PartUsage, AttributeUsage>>), includeEdgeTypes |-> Absent],
     [includeNodeTypes |-> Absent, includeEdgeTypes |-> Given(<<"typing">>)],
     [includeNodeTypes |-> Given(<<>>), includeEdgeTypes |-> Given(<<>>)]}

InitEdges ==
    /\ symbols = <<>>
    /\ relationships = <<>>
    /\ config \in EdgeConfigs
    /\ pc = "input"
    /\ nodes = <<>>
    /\ edges = <<>>
    /\ elkCall = NoElkCall
    /\ InitIdleSizing
    /\ InitIdleViews
    /\ InitIdleRuns
    /\ InitIdleTheme

\* The caller's symbol list grows by one top-level symbol with a fresh
\* qualified name.
AddEndpointSymbol(qn, nodeType) ==
    /\ pc = "input"
    /\ Len(symbols) < MaxEndpointSymbols
    /\ \A i \in DOMAIN symbols : symbols[i].qualifiedName # qn
    /\ symbols' = Append(symbols, Symbol(qn, nodeType, <<>>))
    /\ UNCHANGED <<relationships, config, pc, nodes, edges, elkCall, sizeVars, viewVars, runVars, themeVars>>

\* The caller's relationship list grows by one relationship.
AddRelationship(type, source, target) ==
    /\ pc = "input"
    /\ Len(relationships) < MaxRelationships
    /\ relationships' = Append(relationships, Relationship(type, source, target))
    /\ UNCHANGED <<symbols, config, pc, nodes, edges, elkCall, sizeVars, viewVars, runVars, themeVars>>

NextEdges ==
    \/ \E qn \in EndpointNames : \E t \in EndpointTypesOf(qn) : AddEndpointSymbol(qn, t)
    \/ \E t \in RelationshipTypes, src \in RelationshipSources, tgt \in RelationshipTargets :
          AddRelationship(t, src, tgt)
    \/ Apply
    \/ LayoutOfNothing
    \/ \E o \in EngineOrigins : LayoutDone(o)

SpecEdges == InitEdges /\ [][NextEdges]_vars

\* The relationship's type passes the edge-type filter of the view.
PassesEdgeFilter(rel) ==
    \/ config.includeEdgeTypes = Absent
    \/ config.includeEdgeTypes[1] = <<>>
    \/ \E k \in DOMAIN config.includeEdgeTypes[1] : config.includeEdgeTypes[1][k] = rel.type

\* The encoded qualified name is the id of a node of the output.
ResolvesToNode(qn) == \E n \in DOMAIN nodes : nodes[n].id = toNodeId(qn)

\* The output holds an edge for relationship i: an edge numbered by the
\* place of the relationship among those that pass the edge-type filter,
\* between the encoded endpoints, typed and labelled by its type.
HasEdgeFor(i) ==
    \E e \in DOMAIN edges :
        /\ edges[e].id = Cardinality({j \in 1..(i - 1) : PassesEdgeFilter(relationships[j])})
        /\ edges[e].source = toNodeId(relationships[i].source)
        /\ edges[e].target = toNodeId(relationships[i].target)
        /\ edges[e].type = relationships[i].type
        /\ edges[e].label = relationships[i].type

MaxTaggedSymbols == 2

\* The type tags a symbol may carry: registered ones of each category, and
\* tags that no registry holds.
TypeTags ==
    {PartUsage, PortDef, AttributeDef, ReferenceUsage, Feature,
     Widget, ViewPort, LowerPort, AttributeTag}

\* The symbols: "A" at the top, "A::b" inside "A", "C" inside "Z", which no
\* symbol list holds.
NameA == <<"A">>
NameAb == <<"A", ":", ":", "b">>
NameC == <<"C">>
NameZ == <<"Z">>
TaggedNames == {NameA, NameAb, NameC}
ParentOfTagged(qn) == IF qn = NameA THEN <<>> ELSE IF qn = NameAb THEN NameA ELSE NameZ

\* View configurations: no filter, and a filter that lets three unknown tags
\* and two registered ones through.
TagFilters == {Absent, Given(<<Widget, ViewPort, AttributeTag, Feature, PortDef>>)}

InitTags ==
    /\ symbols = <<>>
    /\ relationships = <<>>
    /\ \E f \in TagFilters : config = [includeNodeTypes |-> f, includeEdgeTypes |-> Absent]
    /\ pc = "input"
    /\ nodes = <<>>
    /\ edges = <<>>
    /\ elkCall = NoElkCall
    /\ InitIdleSizing
    /\ InitIdleViews
    /\ InitIdleRuns
    /\ InitIdleTheme

\* The caller's symbol list grows by one symbol with a fresh qualified name
\* and any type tag.
AddTaggedSymbol(qn, tag) ==
    /\ pc = "input"
    /\ Len(symbols) < MaxTaggedSymbols
    /\ \A i \in DOMAIN symbols : symbols[i].qualifiedName # qn
    /\ symbols' = Append(symbols, Symbol(qn, tag, ParentOfTagged(qn)))
    /\ UNCHANGED <<relationships, config, pc, nodes, edges, elkCall, sizeVars, viewVars, runVars, themeVars>>

NextTags ==
    \/ \E qn \in TaggedNames, t \in TypeTags : AddTaggedSymbol(qn, t)
    \/ Apply
    \/ LayoutOfNothing
    \/ \E o \in EngineOrigins : LayoutDone(o)

SpecTags == InitTags /\ [][NextTags]_vars

\* The tag has the four characters "Port" somewhere in it.
ContainsPort(tag) ==
    \E j \in 1..(Len(tag) - 3) :
        tag[j] = "P" /\ tag[j + 1] = "o" /\ tag[j + 2] = "r" /\ tag[j + 3] = "t"

\* The output node built from the symbol at position i, if there is one.
NodesOfSymbol(i) ==
    {k \in DOMAIN nodes : nodes[k].data.qualifiedName = symbols[i].qualifiedName}

\* The symbol at position i passes the node-type filter of the view.
PassesNodeFilter(i) ==
    \/ config.includeNodeTypes = Absent
    \/ config.includeNodeTypes[1] = <<>>
    \/ \E k \in DOMAIN config.includeNodeTypes[1] :
          config.includeNodeTypes[1][k] = symbols[i].nodeType

\* C11 (as amended): a symbol that passes the node-type filter and whose tag
\* is not registered and does not contain "Port" is an output node of the
\* fallback type 'default'; an unregistered tag that contains "Port" makes
\* the symbol a port, which is no output node.
C11_UnknownTagFallsBack ==
    Built =>
        \A i \in DOMAIN symbols :
            (PassesNodeFilter(i) /\ symbols[i].nodeType \notin VALID_NODE_TYPES) =>
                IF ContainsPort(symbols[i].nodeType)
                THEN NodesOfSymbol(i) = {}
                ELSE /\ NodesOfSymbol(i) # {}
                     /\ \A k \in NodesOfSymbol(i) : nodes[k].type = DefaultNodeType

\* C11 witness: under a filter, a symbol tagged "Widget" became a node of
\* type 'default' next to a symbol tagged "ViewPort" that became none.
C11_Witness ==
    /\ Built
    /\ config.includeNodeTypes # Absent
    /\ \E i, j \in DOMAIN symbols :
          /\ symbols[i].nodeType = Widget
          /\ \E k \in NodesOfSymbol(i) : nodes[k].type = DefaultNodeType
          /\ symbols[j].nodeType = ViewPort
          /\ NodesOfSymbol(j) = {}

\* C11 as stated: every symbol that passes the node-type filter and whose tag
\* is not registered is an output node of type 'default'.
C11_Original ==
    Built =>
        \A i \in DOMAIN symbols :
            (PassesNodeFilter(i) /\ symbols[i].nodeType \notin VALID_NODE_TYPES) =>
                \E k \in NodesOfSymbol(i) : nodes[k].type = DefaultNodeType

\* The category the classifier is to give a tag: port when it contains
\* "Port", else property for the four property tags, else structural.
CategoryByRule(tag) ==
    IF ContainsPort(tag) THEN "port"
    ELSE IF tag \in {AttributeUsage, AttributeDef, ReferenceUsage, Feature} THEN "property"
    ELSE "structural"

\* C20: getNodeCategory gives every tag, registered or not, the category of
\* the rule (port first, then property, else structural), and apply treats
\* the symbol so: of the symbols that pass the filter exactly the structural
\* ones are output nodes.
C20_CategoryByRule ==
    Built =>
        \A i \in DOMAIN symbols :
            /\ getNodeCategory(symbols[i].nodeType) = CategoryByRule(symbols[i].nodeType)
            /\ PassesNodeFilter(i) =>
                  (NodesOfSymbol(i) # {} <=> CategoryByRule(symbols[i].nodeType) = "structural")

\* C20 witness: "A" is a node, and its child tagged "ViewPort", a tag no
\* registry holds, is a port line of it.
C20_Witness ==
    /\ Built
    /\ \E i, j \in DOMAIN symbols :
          /\ symbols[i].qualifiedName = NameA
          /\ symbols[j].qualifiedName = NameAb
          /\ symbols[j].nodeType = ViewPort
          /\ NodesOfSymbol(j) = {}
          /\ \E k \in NodesOfSymbol(i) : ContentOf(nodes[k]) = <<PortSeparator, <<"b">>>>

(***************************************************************************)
(* Content Aggregator: where content lines come from                       *)
(***************************************************************************)
\* The symbol at position i is a property or a port.
IsInline(i) == CategoryByRule(symbols[i].nodeType) \in {"property", "port"}

\* The formatted line of the symbol at position i.
LineOf(i) == LinesInOrder({i}, 1)[1]

\* The lines of a content list, as a set.
LinesOf(content) == {content[j] : j \in DOMAIN content}

\* The inline symbols whose parent is the qualified name of no output node:
\* they name no parent, a parent that is no symbol, or one that is filtered
\* out or not structural.
Unplaced ==
    {i \in DOMAIN symbols :
        /\ IsInline(i)
        /\ \A k \in DOMAIN nodes : nodes[k].data.qualifiedName # symbols[i].parent}

\* Every content line of every node is an own feature of the node's symbol
\* or the line of an inline symbol whose parent is the node's qualified
\* name, or one of the lines in extra.
LinesHaveSource(extra) ==
    \A k \in DOMAIN nodes :
        \A l \in LinesOf(ContentOf(nodes[k])) :
            \/ l \in extra
            \/ l \in LinesOf(SymbolOfNode(nodes[k]).features)
            \/ \E i \in DOMAIN symbols :
                  /\ IsInline(i)
                  /\ symbols[i].parent = nodes[k].data.qualifiedName
                  /\ LineOf(i) = l

\* The line of an inline symbol without a retained structural parent is in
\* no node's content, and no inline symbol is an output node.
InlineNeverPlacedElsewhere ==
    /\ \A i \in Unplaced : \A k \in DOMAIN nodes : LineOf(i) \notin LinesOf(ContentOf(nodes[k]))
    /\ \A i \in DOMAIN symbols : IsInline(i) => NodesOfSymbol(i) = {}

\* C12 (as amended): every content line of a node is the separator "---", an
\* own feature of the node's symbol, or the line of a property or port symbol
\* whose parent is the node's qualified name; the line of a property or port
\* symbol whose parent is dangling or not a retained structural node is in no
\* node's content; no property or port symbol is an output node.
C12_ContentProvenance ==
    Built => LinesHaveSource({PortSeparator}) /\ InlineNeverPlacedElsewhere

\* C12 witness: one node shows a port line under the separator while another
\* inline symbol names a parent that is no output node.
C12_Witness ==
    /\ Built
    /\ \E i \in Unplaced : symbols[i].parent # <<>>
    /\ \E k \in DOMAIN nodes : PortSeparator \in LinesOf(ContentOf(nodes[k]))

\* C12 as stated: every content line of a node is an own feature or the line
\* of a property or port symbol of the node, and unplaced lines are nowhere.
C12_Original ==
    Built => LinesHaveSource({}) /\ InlineNeverPlacedElsewhere

(***************************************************************************)
(* Two layout runs of a host: the Graph Builder followed by a backend      *)
(***************************************************************************)
MaxRunSymbols == 2

\* The runs of the host.
RunIds == {1, 2}

\* The symbols a run may be given: a part "P", its child part "P::x", its
\* port "P::p" ...
RunSymbolPool ==
    <<Symbol(NameP, PartUsage, <<>>), Symbol(NamePx, PartUsage, NameP),
      Symbol(NamePp, PortUsage, NameP)>>

\* ... or the widget "P_x" with the part "P::x" inside it: two nodes of the
\* id "P_x", the second under that id.
CollidingPair == <<Symbol(NameP_x, Widget, <<>>), Symbol(NamePx, PartUsage, NameP_x)>>

RunSymbolLists ==
    {SubSeq(RunSymbolPool, 1, n) : n \in 0..MaxRunSymbols} \cup {CollidingPair}

RunRelationshipLists == {<<>>, <<Relationship("composition", NameP, NamePx)>>}

\* The backend a run hands the built graph to: the hierarchical adapter (as
\* GeneralViewLayout.apply does), the level layout or the grid layout.
Backends == {"elk", "level", "grid"}

\* Nothing returned yet.
NoResult == [status |-> "pending", nodes |-> <<>>, edges |-> <<>>, error |-> ""]

\* A run that has not started.
NewRun(syms, rels, backend) ==
    [symbols |-> syms, relationships |-> rels,
     config |-> [includeNodeTypes |-> Absent, includeEdgeTypes |-> Absent],
     backend |-> backend, pc |-> "idle", nodes |-> <<>>, edges |-> <<>>,
     calls |-> <<>>, result |-> NoResult]

\* The errors the engine may reject a request with.
EngineErrors == {"UnsupportedGraph", "WorkerTerminated"}

\* applyElkLayout: nodes.length === 0 that never holds.
SkipsEngineNever(ns) == FALSE

\* applyElkLayout: nodes.length === 0, the nodes are returned as they are.
SkipsEngine(ns) == Len(ns) = 0

\* The requests the engine has answered so far.
Served == Len(SelectSeq(elk.log, LAMBDA e : e.event # "request"))

\* An engine whose origin follows the number of requests it has answered.
EngineOriginByArrival(ns, served) == 20 * served

\* A deterministic engine: the origin it lays a graph out from depends on
\* the graph alone.
EngineOrigin(ns, served) == 20 * Len(ns)

\* Some request the engine holds.
AnyRequest(i) == CHOOSE r \in elk.pending : TRUE

\* The request the engine holds for run i: the promise of elk.layout belongs
\* to the call that made it.
RequestOf(i) == CHOOSE r \in elk.pending : r.run = i

\* The run returns the nodes and edges.
Resolved(run, ns, es) ==
    [run EXCEPT !.pc = "resolved",
                !.result = [status |-> "value", nodes |-> ns, edges |-> es, error |-> ""]]

\* A rejection answered by laying the built nodes out on the grid.
RejectedFallsBackToGrid(run, error) ==
    Resolved([run EXCEPT !.calls = Append(run.calls, "applyGridLayout")],
             applyGridLayout(run.nodes, <<>>), run.edges)

\* The run fails with the error: nothing catches it between elk.layout and
\* the caller of apply.
Rejected(run, error) ==
    [run EXCEPT !.pc = "rejected",
                !.result = [status |-> "error", nodes |-> <<>>, edges |-> <<>>,
                            error |-> error]]

InitRuns ==
    /\ runs \in [RunIds -> {NewRun(syms, rels, b) :
                               syms \in RunSymbolLists, rels \in RunRelationshipLists,
                               b \in Backends}]
    /\ elk = IdleEngine
    /\ InitIdleApply
    /\ InitIdleSizing
    /\ InitIdleViews
    /\ InitIdleTheme

\* The run after apply has built the graph (steps 1 to 3) and handed it to
\* the backend.  The level and grid layouts return at once.  applyElkLayout
\* returns the nodes of an empty graph, fails when buildElkGraph uses the
\* stack up, and else calls elk.layout and awaits the answer.
HandedOver(run, built) ==
    LET started == [run EXCEPT !.nodes = built.nodes, !.edges = built.edges]
    IN  IF run.backend = "level"
        THEN Resolved([started EXCEPT !.calls = <<"applyLevelLayout">>],
                      applyLevelLayout(built.nodes, built.edges, <<>>), built.edges)
        ELSE IF run.backend = "grid"
        THEN Resolved([started EXCEPT !.calls = <<"applyGridLayout">>],
                      applyGridLayout(built.nodes, <<>>), built.edges)
        ELSE IF SkipsEngine(built.nodes)
        THEN [started EXCEPT !.calls = <<"applyElkLayout">>, !.pc = "returning"]
        ELSE IF ExhaustsStack(built.nodes)
        THEN Rejected([started EXCEPT !.calls = <<"applyElkLayout">>], "RangeError")
        ELSE [started EXCEPT !.calls = <<"applyElkLayout", "elk.layout">>,
                             !.pc = "awaiting"]

\* Run i starts and runs up to its first await (or to its end).
Invoke(i) ==
    /\ runs[i].pc = "idle"
    /\ runs' = [runs EXCEPT ![i] =
                   HandedOver(runs[i], BuiltGraph(runs[i].symbols, runs[i].relationships,
                                                  runs[i].config))]
    /\ elk' = IF runs'[i].pc = "awaiting"
              THEN [pending |-> elk.pending \cup {[run |-> i, nodes |-> runs'[i].nodes]},
                    log |-> Append(elk.log, [event |-> "request", run |-> i, error |-> ""])]
              ELSE elk
    /\ UNCHANGED <<applyVars, sizeVars, viewVars, themeVars>>

\* applyElkLayout has returned the empty node list; apply returns it with
\* the edges.
ReturnsEmpty(i) ==
    /\ runs[i].pc = "returning"
    /\ runs' = [runs EXCEPT ![i] = Resolved(runs[i], runs[i].nodes, runs[i].edges)]
    /\ UNCHANGED <<elk, applyVars, sizeVars, viewVars, themeVars>>

\* The engine answers the request of run i; the run puts the positions on
\* its nodes and returns them with its edges.
EngineResolves(i) ==
    /\ runs[i].pc = "awaiting"
    /\ LET request == RequestOf(i)
           layoutedGraph == ElkLayout(request.nodes, EngineOrigin(request.nodes, Served))
       IN  runs' = [runs EXCEPT ![i] =
                       Resolved(runs[i], applyLayoutToNodes(runs[i].nodes, layoutedGraph),
                                runs[i].edges)]
    /\ elk' = [pending |-> {r \in elk.pending : r.run # i},
               log |-> Append(elk.log, [event |-> "resolve", run |-> i, error |-> ""])]
    /\ UNCHANGED <<applyVars, sizeVars, viewVars, themeVars>>

\* The engine rejects the request of run i.
EngineRejects(i, error) ==
    /\ runs[i].pc = "awaiting"
    /\ runs' = [runs EXCEPT ![i] = Rejected(runs[i], error)]
    /\ elk' = [pending |-> {r \in elk.pending : r.run # i},
               log |-> Append(elk.log, [event |-> "reject", run |-> i, error |-> error])]
    /\ UNCHANGED <<applyVars, sizeVars, viewVars, themeVars>>

NextRuns ==
    \/ \E i \in RunIds : Invoke(i)
    \/ \E i \in RunIds : ReturnsEmpty(i)
    \/ \E i \in RunIds : EngineResolves(i)
    \/ \E i \in RunIds, error \in EngineErrors : EngineRejects(i, error)

SpecRuns == InitRuns /\ [][NextRuns]_vars

\* The requests run i has sent to the engine.
RequestsOf(i) == SelectSeq(elk.log, LAMBDA e : e.event = "request" /\ e.run = i)

\* The rejections the engine has answered run i with.
RejectionsOf(i) == SelectSeq(elk.log, LAMBDA e : e.event = "reject" /\ e.run = i)

\* C13: when the engine rejects the request of a run, the run fails with the
\* engine's error: it returns no nodes and no edges, it has called the
\* engine once, and the adapter is the only backend it has called.
C13_EngineErrorPropagates ==
    \A i \in RunIds :
        Len(RejectionsOf(i)) > 0 =>
            /\ runs[i].pc = "rejected"
            /\ runs[i].result = [status |-> "error", nodes |-> <<>>, edges |-> <<>>,
                                 error |-> RejectionsOf(i)[1].error]
            /\ Len(RequestsOf(i)) = 1
            /\ runs[i].calls = <<"applyElkLayout", "elk.layout">>
            /\ \A r \in elk.pending : r.run # i

\* C13 witness: the engine has rejected the request of run 1, which had
\* nodes and an edge to return, and has answered run 2.
C13_Witness ==
    /\ Len(RejectionsOf(1)) = 1
    /\ Len(runs[1].nodes) = 2
    /\ Len(runs[1].edges) = 1
    /\ runs[1].result.error = "WorkerTerminated"
    /\ runs[2].pc = "resolved"
    /\ runs[2].backend = "elk"

\* C14: a run given no symbols builds no nodes and no edges and returns
\* them: with the adapter no request reaches the engine, and with the level
\* and the grid layout nothing fails.
C14_NothingToLayOut ==
    \A i \in RunIds :
        (runs[i].symbols = <<>> /\ runs[i].pc # "idle") =>
            /\ runs[i].nodes = <<>>
            /\ runs[i].edges = <<>>
            /\ Len(RequestsOf(i)) = 0
            /\ Len(runs[i].calls) = 1
            /\ runs[i].pc \in {"returning", "resolved"}
            /\ runs[i].pc = "resolved" =>
                   runs[i].result = [status |-> "value", nodes |-> <<>>, edges |-> <<>>,
                                     error |-> ""]

\* C14 witness: a run of the adapter given no symbols and one relationship
\* has returned, and so has a run of the level layout given the same.
C14_Witness ==
    /\ runs[1].symbols = <<>>
    /\ Len(runs[1].relationships) = 1
    /\ runs[1].backend = "elk"
    /\ runs[1].pc = "resolved"
    /\ runs[2].symbols = <<>>
    /\ runs[2].backend = "level"
    /\ runs[2].pc = "resolved"

\* The run has ended and the engine has not rejected it.
Ended(i) == runs[i].pc \in {"resolved", "rejected"} /\ Len(RejectionsOf(i)) = 0

Alone(i) ==
    LET built == BuiltGraph(runs[i].symbols, runs[i].relationships, runs[i].config)
    IN  [status |-> "value",
         nodes |-> applyLayoutToNodes(built.nodes,
                                      ElkLayout(built.nodes, EngineOrigin(built.nodes, 0))),
         edges |-> built.edges, error |-> ""]

\* C16: runs of the adapter that are in flight together do not touch each
\* other's graph: the engine holds for each run the nodes of that run, and
\* a run the engine has answered returns what it returns alone, whatever the
\* order of the answers.  Every request goes to the one engine.
C16_RunsAreIsolated ==
    /\ \A r \in elk.pending : r.nodes = runs[r.run].nodes /\ runs[r.run].pc = "awaiting"
    /\ \A i \in RunIds :
           (runs[i].backend = "elk" /\ runs[i].pc = "resolved"
                /\ Len(RequestsOf(i)) = 1) =>
               runs[i].result = Alone(i)
    /\ \A i \in RunIds : runs[i].pc = "awaiting" => \E r \in elk.pending : r.run = i

\* C16 witness: two runs on different symbols were in flight together and
\* the engine answered the second request first.
C16_Witness ==
    /\ Len(elk.log) = 4
    /\ [k \in 1..4 |-> elk.log[k].event] = <<"request", "request", "resolve", "resolve">>
    /\ [k \in 1..4 |-> elk.log[k].run] = <<1, 2, 2, 1>>
    /\ Len(runs[1].symbols) = 2
    /\ Len(runs[2].symbols) = 1
    /\ runs[1].result.nodes # runs[2].result.nodes

(***************************************************************************)
(* View configuration filters: properties                                  *)
(***************************************************************************)
\* C19: a structural symbol is an output node if and only if
\* includeNodeTypes is absent, empty or contains its type; a relationship
\* whose endpoints are output nodes gives an edge if and only if
\* includeEdgeTypes is absent, empty or contains its type; and no output
\* edge has a type that a non-empty includeEdgeTypes does not contain.
C19_AllowLists ==
    Built =>
        /\ \A i \in DOMAIN symbols :
              getNodeCategory(symbols[i].nodeType) = "structural" =>
                  (NodesOfSymbol(i) # {} <=> PassesNodeFilter(i))
        /\ \A i \in DOMAIN relationships :
              ( /\ ResolvesToNode(relationships[i].source)
                /\ ResolvesToNode(relationships[i].target) ) =>
                  (HasEdgeFor(i) <=> PassesEdgeFilter(relationships[i]))
        /\ \A e \in DOMAIN edges :
              (config.includeEdgeTypes # Absent /\ config.includeEdgeTypes[1] # <<>>) =>
                  \E k \in DOMAIN config.includeEdgeTypes[1] :
                      config.includeEdgeTypes[1][k] = edges[e].type

\* C19 witness: both lists are given and empty, and a widget and a
\* composition between two output nodes have come through.
C19_Witness ==
    /\ Built
    /\ config.includeNodeTypes = Given(<<>>)
    /\ config.includeEdgeTypes = Given(<<>>)
    /\ \E k \in DOMAIN nodes : nodes[k].type = DefaultNodeType
    /\ \E e \in DOMAIN edges : edges[e].type = "composition"

(***************************************************************************)
(* applyElkLayout on bounded node and edge lists of any host               *)
(***************************************************************************)
MaxElkNodes == 2

\* The ids of the nodes a host passes: "a", "b" and "root", the id that
\* buildElkGraph gives the root of its request.
ElkNodeIds == {<<"a">>, <<"b">>, RootId}

\* What a node names as its parent: nothing, one of the ids, or "z", the id
\* of no node.
ElkParentIds == {<<>>, <<"z">>} \cup ElkNodeIds

\* A node of the host, already placed at (5, 7): "a" has one line of
\* content and a size, "b" has no content and no size, "root" a size.
ElkNode(id, parentId) ==
    [id |-> id,
     type |-> PartUsage,
     position |-> [x |-> 5, y |-> 7],
     data |-> [name |-> id, qualifiedName |-> id,
               features |-> IF id = <<"a">> THEN Given(<<LineTyped>>) ELSE Absent,
               typedBy |-> <<>>, direction |-> <<>>],
     style |-> IF id = <<"b">> THEN [width |-> 0, height |-> 0]
               ELSE [width |-> 200, height |-> 120],
     parentId |-> parentId,
     extent |-> IF parentId # <<>> THEN "parent" ELSE "undefined"]

\* An edge of the host.
ElkEdge(i, source, target) ==
    [id |-> i, source |-> source, target |-> target, type |-> "typing", label |-> "typing"]

\* The edge lists a host passes: none, an edge between "a" and "b", an edge
\* to "z", and both after an edge from "z".
ElkEdgeLists ==
    {<<>>,
     <<ElkEdge(0, <<"a">>, <<"b">>)>>,
     <<ElkEdge(0, <<"a">>, <<"z">>)>>,
     <<ElkEdge(0, <<"z">>, <<"a">>), ElkEdge(1, <<"a">>, <<"b">>),
       ElkEdge(2, <<"b">>, <<"z">>)>>}

\* A host is about to call applyElkLayout(nodes, edges).
InitElk ==
    /\ symbols = <<>>
    /\ relationships = <<>>
    /\ config = [includeNodeTypes |-> Absent, includeEdgeTypes |-> Absent]
    /\ pc = "layout"
    /\ \E n \in 0..MaxElkNodes :
          nodes \in [1..n -> {ElkNode(id, parentId) : id \in ElkNodeIds,
                                                          parentId \in ElkParentIds}]
    /\ edges \in ElkEdgeLists
    /\ elkCall = NoElkCall
    /\ InitIdleSizing
    /\ InitIdleViews
    /\ InitIdleRuns
    /\ InitIdleTheme

NextElk ==
    \/ LayoutOfNothing
    \/ LayoutOverflow
    \/ \E o \in EngineOrigins : LayoutDone(o)

SpecElk == InitElk /\ [][NextElk]_vars

(***************************************************************************)
(* Hierarchical engine adapter: properties                                 *)
(***************************************************************************)
\* applyElkLayout has returned after the engine answered.
Answered == pc = "done" /\ elkCall.sent

\* The ids the engine reported.
Reported == DOMAIN elkCall.layouted

\* C24: applyLayoutToNodes returns the nodes it was given, in order; a node
\* whose id the engine reported has the engine's x and y as its position,
\* and a node the engine did not report is returned as it was.
C24_ReportedNodesArePlaced ==
    Answered =>
        /\ Len(nodes) = Len(elkCall.nodes)
        /\ \A i \in DOMAIN nodes :
              /\ nodes[i].id = elkCall.nodes[i].id
              /\ nodes[i].id \in Reported =>
                    nodes[i].position = [x |-> elkCall.layouted[nodes[i].id].x,
                                         y |-> elkCall.layouted[nodes[i].id].y]
              /\ nodes[i].id \notin Reported => nodes[i] = elkCall.nodes[i]

\* The part of C24 that holds: the same with the id 'root' set apart, whose
\* node is returned as it was although the engine reported it.
C24_ReportedButRoot ==
    Answered =>
        /\ Len(nodes) = Len(elkCall.nodes)
        /\ \A i \in DOMAIN nodes :
              /\ nodes[i].id = elkCall.nodes[i].id
              /\ (nodes[i].id \in Reported /\ nodes[i].id # RootId) =>
                    nodes[i].position = [x |-> elkCall.layouted[nodes[i].id].x,
                                         y |-> elkCall.layouted[nodes[i].id].y]
              /\ (nodes[i].id \notin Reported \/ nodes[i].id = RootId) =>
                    nodes[i] = elkCall.nodes[i]

\* C25: every edge of the request has a source and a target that are ids of
\* the nodes given to applyElkLayout, and the edges of the request are the
\* given edges with both endpoints among those ids, in order.
C25_RequestEdgesResolve ==
    Answered =>
        LET nodeIds == {elkCall.nodes[i].id : i \in DOMAIN elkCall.nodes}
            resolving == SelectSeq(edges, LAMBDA e : e.source \in nodeIds /\ e.target \in nodeIds)
        IN  /\ \A k \in DOMAIN elkCall.edges :
                  /\ elkCall.edges[k].sources[1] \in nodeIds
                  /\ elkCall.edges[k].targets[1] \in nodeIds
            /\ [k \in DOMAIN elkCall.edges |-> elkCall.edges[k].id]
                   = [k \in DOMAIN resolving |-> resolving[k].id]

\* C25 witness: of three edges the request holds the one between "a" and
\* "b"; the edge from "z" and the edge to "z" are left out.
C25_Witness ==
    /\ Answered
    /\ Len(edges) = 3
    /\ Len(elkCall.edges) = 1
    /\ elkCall.edges[1] = [id |-> 1, sources |-> << <<"a">> >>, targets |-> << <<"b">> >>]

\* The content lines of a node: node.data.features || [].
FeaturesOf(n) == IF n.data.features = Absent THEN <<>> ELSE n.data.features[1]

\* Some node given to applyElkLayout names the id as its parentId.
NamedAsParent(id) == \E j \in DOMAIN elkCall.nodes : elkCall.nodes[j].parentId = id

C28_EveryNodeOnceInRequest ==
    Answered =>
        \A i \in DOMAIN elkCall.nodes :
            /\ Cardinality({k \in DOMAIN elkCall.children : elkCall.children[k].node = i}) = 1
            /\ nodes[i].id \in Reported
            /\ nodes[i].position = [x |-> elkCall.layouted[nodes[i].id].x,
                                    y |-> elkCall.layouted[nodes[i].id].y]

\* C29: the construction of the request ends for every node list the Graph
\* Builder makes of symbols with distinct qualified names: apply does not
\* fail before the engine is called.
C29_RequestConstructionEnds == pc # "failed"

(***************************************************************************)
(* ThemeProvider (ThemeContext) in a host document                         *)
(***************************************************************************)
ThemeModes == {"auto", "light", "dark", "pastel"}

\* The classes the model puts on document.body.
BodyClasses == {"vscode-dark", "vscode-light"}

\* window.matchMedia: not there, or there with the system preference.
MatchMedia == {"absent", "dark", "light"}

\* detectVSCodeTheme with the system preference left out.
detectVSCodeThemeClassesOnly(env) ==
    IF ~env.document THEN "light"
    ELSE IF "vscode-dark" \in env.classList THEN "dark"
    ELSE "light"

\* detectVSCodeTheme, on the environment it reads: whether there is a
\* document, the class list of its body, and window.matchMedia.
detectVSCodeTheme(env) ==
    IF ~env.document THEN "light"
    ELSE IF "vscode-dark" \in env.classList THEN "dark"
    ELSE IF "vscode-light" \in env.classList THEN "light"
    ELSE IF env.matchMedia = "dark" THEN "dark"
    ELSE "light"

\* getTheme of the theme tokens.
getTheme(name) ==
    CASE name = "dark" -> "darkTheme"
      [] name = "pastel" -> "pastelTheme"
      [] OTHER -> "lightTheme"

\* ThemeProvider's render: the theme handed to the consumers.
RenderTheme(themeName, detectedTheme) ==
    LET resolvedThemeName == IF themeName = "auto" THEN detectedTheme ELSE themeName
    IN  getTheme(resolvedThemeName)

\* The environment the provider runs in.
ThemeEnv(ui) ==
    [document |-> ui.document, classList |-> ui.classList, matchMedia |-> ui.matchMedia]

\* <ThemeProvider initialTheme=...> is mounted: both states are initialised,
\* the detected one from detectVSCodeTheme(), and the first render has run.
\* With a document the effect has attached the observer to the body.
MountedThemeProvider(initialTheme, env) ==
    [mounted |-> TRUE,
     document |-> env.document, classList |-> env.classList,
     matchMedia |-> env.matchMedia,
     themeName |-> initialTheme,
     detectedTheme |-> detectVSCodeTheme(env),
     theme |-> RenderTheme(initialTheme, detectVSCodeTheme(env)),
     queued |-> FALSE,
     notified |-> FALSE,
     seen |-> env]

InitTheme ==
    /\ \E initialTheme \in ThemeModes, document \in BOOLEAN, media \in MatchMedia :
       \E classes \in (IF document THEN SUBSET BodyClasses ELSE {{}}) :
          themeUi = MountedThemeProvider(initialTheme,
                        [document |-> document, classList |-> classes,
                         matchMedia |-> IF document THEN media ELSE "absent"])
    /\ InitIdleApply
    /\ InitIdleSizing
    /\ InitIdleViews
    /\ InitIdleRuns

\* A consumer calls setThemeName(name); the provider renders again.
SetThemeName(name) ==
    /\ themeUi.mounted
    /\ themeUi' = [themeUi EXCEPT !.themeName = name,
                                  !.theme = RenderTheme(name, themeUi.detectedTheme)]
    /\ UNCHANGED <<applyVars, sizeVars, viewVars, runVars>>

\* The host changes the class attribute of the body: the observer has a
\* mutation record to deliver.
SetBodyClasses(classes) ==
    /\ themeUi.mounted
    /\ themeUi.document
    /\ classes # themeUi.classList
    /\ themeUi' = [themeUi EXCEPT !.classList = classes, !.queued = TRUE]
    /\ UNCHANGED <<applyVars, sizeVars, viewVars, runVars>>

\* The system preference changes; nothing listens to it.
SystemPreferenceChanges(media) ==
    /\ themeUi.mounted
    /\ themeUi.document
    /\ themeUi.matchMedia # "absent"
    /\ media \in {"dark", "light"}
    /\ media # themeUi.matchMedia
    /\ themeUi' = [themeUi EXCEPT !.matchMedia = media]
    /\ UNCHANGED <<applyVars, sizeVars, viewVars, runVars>>

\* The MutationObserver's callback runs: detectVSCodeTheme() reads the
\* environment as it is now, setDetectedTheme stores it, the provider
\* renders again.
ObserverNotified ==
    /\ themeUi.mounted
    /\ themeUi.queued
    /\ LET detected == detectVSCodeTheme(ThemeEnv(themeUi)) IN
       themeUi' = [themeUi EXCEPT !.queued = FALSE,
                                  !.notified = TRUE,
                                  !.seen = ThemeEnv(themeUi),
                                  !.detectedTheme = detected,
                                  !.theme = RenderTheme(themeUi.themeName, detected)]
    /\ UNCHANGED <<applyVars, sizeVars, viewVars, runVars>>

NextTheme ==
    \/ \E name \in ThemeModes : SetThemeName(name)
    \/ \E classes \in SUBSET BodyClasses : SetBodyClasses(classes)
    \/ \E media \in MatchMedia : SystemPreferenceChanges(media)
    \/ ObserverNotified

SpecTheme == InitTheme /\ [][NextTheme]_vars

(***************************************************************************)
(* ThemeProvider: properties                                               *)
(***************************************************************************)
\* The theme the detection rule gives for what the provider saw at its
\* latest notification (at mount, before the first one).
ThemeLastDetected ==
    CASE ~themeUi.seen.document -> "lightTheme"
      [] themeUi.seen.document /\ "vscode-dark" \in themeUi.seen.classList
           -> "darkTheme"
      [] themeUi.seen.document /\ "vscode-dark" \notin themeUi.seen.classList
         /\ "vscode-light" \in themeUi.seen.classList
           -> "lightTheme"
      [] OTHER -> IF themeUi.seen.matchMedia = "dark" THEN "darkTheme"
                  ELSE "lightTheme"

\* C23: after any sequence of setThemeName calls and body-class change
\* notifications the theme given to the consumers is the explicitly set
\* theme when the theme name is light, dark or pastel, and the theme detected
\* at the latest notification (vscode-dark: dark, vscode-light: light,
\* otherwise the system preference, otherwise light) when the name is auto;
\* a step that leaves an explicit name in place never alters the theme.
C23_ThemeFollowsNameAndDetection ==
    /\ [](themeUi.mounted =>
            /\ themeUi.themeName = "light" => themeUi.theme = "lightTheme"
            /\ themeUi.themeName = "dark" => themeUi.theme = "darkTheme"
            /\ themeUi.themeName = "pastel" => themeUi.theme = "pastelTheme"
            /\ themeUi.themeName = "auto" => themeUi.theme = ThemeLastDetected)
    /\ [][(themeUi.mounted /\ themeUi.themeName # "auto"
           /\ themeUi'.themeName = themeUi.themeName)
            => themeUi'.theme = themeUi.theme]_vars

\* C23 witness: in auto mode, after a notification that found no vscode
\* class and a dark system preference, the system preference has turned
\* light and the consumers still get the dark theme.
C23_Witness ==
    /\ themeUi.mounted
    /\ themeUi.themeName = "auto"
    /\ themeUi.notified
    /\ themeUi.classList = {}
    /\ themeUi.seen.classList = {}
    /\ themeUi.seen.matchMedia = "dark"
    /\ themeUi.matchMedia = "light"
    /\ themeUi.theme = "darkTheme"

\* C23 witness, explicit part: the detection changed from light to dark
\* under the explicit name pastel.
C23_WitnessExplicit ==
    /\ themeUi.mounted
    /\ themeUi.themeName = "pastel"
    /\ themeUi.notified
    /\ themeUi.detectedTheme = "dark"
    /\ themeUi.theme = "pastelTheme"

====
